---------------------------- MODULE Spec2Model ----------------------------
(***************************************************************************)
(* Maze: the puzzle codec (helloworld/src/maze/decoder.ts), the            *)
(* path-tracking engine (helloworld/src/maze/engine.ts) and the authoring  *)
(* tool's generators, solver and packers (temp/app.js).                    *)
(*                                                                         *)
(* Indices are 0-based in the source and 1-based in TLA+ sequences: the    *)
(* element a[i] of the source is a[i + 1] here.                            *)
(***************************************************************************)
EXTENDS Integers, Sequences, FiniteSets, TLC

VARIABLES
  engineIn,     \* arguments of the engine call under test
  engineOut,    \* its result: [done, index, segment]
  normIn,       \* arguments of normalizeOpenings: [w, h, openings]
  normOut,      \* its result: [done, openings]
  hintIn,       \* the solution length given to createDefaultHints: [L]
  hintOut,      \* its result: [done, defaults, hints]
  decIn,        \* arguments of the decoder call under test: [fn, text, L, w, h, grid]
  decOut,       \* its result: [done, threw, bytes, moves, env]
  gridWidth,    \* MazeVisualizer.gridWidth
  gridHeight,   \* MazeVisualizer.gridHeight
  walls,        \* cell index y*W+x -> [N, E, S, W -> wall present]   (MazeCell.walls)
  generated,    \* cell index -> MazeCell.generated
  algorithmKey, \* MazeVisualizer.algorithmKey
  isAnimating,  \* MazeVisualizer.isAnimating
  pc,           \* where the running generateMaze / solveMaze is suspended
  gen,          \* locals of the running generator
  solve,        \* MazeCell.distance / prev / solveVisited, openSet and current
  pathCells,    \* MazeVisualizer.pathCells
  hints,        \* MazeVisualizer.hints: [set, steps], set = FALSE for null
  roundTrip,    \* result of the last pack-then-decode, [kind |-> "none"] otherwise
  hintEditMode, \* setup(): hintEditMode, "none", "add" or "remove"
  exported,     \* the record the last handler downloaded, NoExport if it did not
  puzzles,         \* GameScreen state: the loaded MazeRecords
  playedSet,       \* ids of the mazes already won
  currentMaze,     \* the selected MazeRecord, NoMaze for null
  gameOpenings,    \* openings: masks of the selected maze
  gameSolutionMoves, \* solutionMoves: its reference moves
  gamePlayerMoves, \* playerMoves and playerMovesRef.current (always set together)
  playerCells,     \* playerCells and playerCellsRef.current (always set together)
  gameDivergence,  \* divergence
  gameProgress,    \* progress
  hintCells,
  availableHints,
  availableSlices,
  hintCount,
  sliceCount,
  startTimestamp,  \* FALSE for null, TRUE once a game was started
  elapsedMs,
  completed,
  isPro,           \* the value returned by useProStatus
  hintRequest,     \* the requestHint call suspended on ads.showRewarded
  sliceRequest,    \* the attemptSlice call suspended on ads.showRewarded
  gameOut,         \* what the last handler of the game screen did
  connectionReady, \* iap.ts: connectionReady
  mockMode,        \* iap.ts: mockMode
  cachedPro,       \* iap.ts: cachedPro
  stored,          \* AsyncStorage item 'maze:pro': "1", "0", or "none" when absent
  iapCall,         \* the buyProUnlock, restorePurchases or clearProStatus call in flight
  proHooks         \* the useProStatus instances: state value and getProStatus promise

engineVars == <<engineIn, engineOut>>
normVars == <<normIn, normOut>>
hintVars == <<hintIn, hintOut>>
decVars == <<decIn, decOut>>
toolVars == <<gridWidth, gridHeight, walls, generated, algorithmKey, isAnimating,
              pc, gen, solve, pathCells, hints, roundTrip, hintEditMode, exported>>
gameVars == <<puzzles, playedSet, currentMaze, gameOpenings, gameSolutionMoves, gamePlayerMoves,
              playerCells, gameDivergence, gameProgress, hintCells, availableHints,
              availableSlices, hintCount, sliceCount, startTimestamp, elapsedMs,
              completed, isPro, hintRequest, sliceRequest, gameOut>>
iapVars == <<connectionReady, mockMode, cachedPro, stored, iapCall, proHooks>>
vars == <<engineIn, engineOut, normIn, normOut, hintIn, hintOut, decIn, decOut,
          gridWidth, gridHeight, walls, generated, algorithmKey, isAnimating,
          pc, gen, solve, pathCells, hints, roundTrip, hintEditMode, exported,
          puzzles, playedSet, currentMaze, gameOpenings, gameSolutionMoves, gamePlayerMoves,
          playerCells, gameDivergence, gameProgress, hintCells, availableHints,
          availableSlices, hintCount, sliceCount, startTimestamp, elapsedMs,
          completed, isPro, hintRequest, sliceRequest, gameOut,
          connectionReady, mockMode, cachedPro, stored, iapCall, proHooks>>

---------------------------------------------------------------------------
(* Bounds *)

MaxMovesLen == 3      \* longest player / reference sequence given to firstDivergence
MaxRefLen == 25       \* longest reference sequence given to hintSegment
NormMaxW == 2         \* widest grid given to normalizeOpenings
NormMaxH == 2         \* tallest grid given to normalizeOpenings
NormMaxNonzero == 2   \* most cells with a non-zero mask in such a grid
MaxTextLen == 4       \* longest text given to decodeBase64ToUint8Array
MaxSide == 3          \* largest width or height of the authoring tool's grid
MaxCells == 6         \* largest number of cells of the authoring tool's grid

---------------------------------------------------------------------------
(* Arithmetic helpers: Math.min, Math.max, Array.prototype.slice *)

Min(a, b) == IF a < b THEN a ELSE b
Max(a, b) == IF a > b THEN a ELSE b

\* Array.prototype.slice(start, end): negative arguments count from the end,
\* both are clamped into 0..length.
JsSlice(arr, start, end) ==
  LET n == Len(arr)
      from == IF start < 0 THEN Max(n + start, 0) ELSE Min(start, n)
      to == IF end < 0 THEN Max(n + end, 0) ELSE Min(end, n)
  IN IF to <= from THEN << >> ELSE SubSeq(arr, from + 1, to)

MaxSubscribers == 2   \* useProStatus instances

NoIapCall == [fn |-> "none", pc |-> "idle", inTry |-> FALSE, value |-> FALSE,
              before |-> FALSE, result |-> "none"]
NoHook == [mounted |-> FALSE, value |-> FALSE, read |-> "off", got |-> "none",
           status |-> FALSE]
IapIdle ==
  /\ connectionReady = FALSE /\ mockMode = FALSE /\ cachedPro = FALSE
  /\ stored = "none" /\ iapCall = NoIapCall
  /\ proHooks = [h \in 1..MaxSubscribers |-> NoHook]

---------------------------------------------------------------------------
(* engine.ts *)

Moves == 0..3

RECURSIVE firstDivergenceLoop(_, _, _, _)
firstDivergenceLoop(playerMoves, solutionMoves, i, len) ==
  IF i < len
  THEN IF playerMoves[i + 1] # solutionMoves[i + 1]
       THEN i
       ELSE firstDivergenceLoop(playerMoves, solutionMoves, i + 1, len)
  ELSE IF Len(playerMoves) > Len(solutionMoves)
       THEN Len(solutionMoves)
       ELSE -1

\* A plausible slip: the "player ran past the solution" test is left out.
firstDivergenceNoOverrun(playerMoves, solutionMoves) ==
  LET len == Min(Len(playerMoves), Len(solutionMoves))
      diffs == {i \in 0..(len - 1) : playerMoves[i + 1] # solutionMoves[i + 1]}
  IN IF diffs = {} THEN -1 ELSE CHOOSE i \in diffs : \A j \in diffs : i <= j

firstDivergence(playerMoves, solutionMoves) ==
  firstDivergenceLoop(playerMoves, solutionMoves, 0,
                      Min(Len(playerMoves), Len(solutionMoves)))

\* A plausible slip: the long window is taken whenever more than 10 remain.
hintSegmentEagerWindow(solutionMoves, progress, divergence, L) ==
  LET cappedSolution == JsSlice(solutionMoves, 0, L)
      clampedProgress == Max(0, Min(progress, Len(cappedSolution)))
      clampedDivergence ==
        IF divergence >= 0 THEN Min(divergence, Len(cappedSolution)) ELSE -1
      start == Max(clampedProgress,
                   IF clampedDivergence >= 0 THEN clampedDivergence ELSE clampedProgress)
      remaining == Max(0, Len(cappedSolution) - start)
  IN IF remaining = 0 THEN << >>
     ELSE JsSlice(cappedSolution, start,
                  start + (IF remaining > 10 THEN 20 ELSE remaining))

\* A plausible slip: the window is cut from the uncapped solution.
hintSegmentUncapped(solutionMoves, progress, divergence, L) ==
  LET cappedSolution == JsSlice(solutionMoves, 0, L)
      clampedProgress == Max(0, Min(progress, Len(cappedSolution)))
      clampedDivergence ==
        IF divergence >= 0 THEN Min(divergence, Len(cappedSolution)) ELSE -1
      start == Max(clampedProgress,
                   IF clampedDivergence >= 0 THEN clampedDivergence ELSE clampedProgress)
      remaining == Max(0, Len(cappedSolution) - start)
      takeCount == IF remaining >= 20 THEN 20 ELSE Min(10, remaining)
  IN IF remaining = 0 THEN << >>
     ELSE JsSlice(solutionMoves, start, start + takeCount + 1)

hintSegment(solutionMoves, progress, divergence, L) ==
  LET cappedSolution == JsSlice(solutionMoves, 0, L)
      clampedProgress == Max(0, Min(progress, Len(cappedSolution)))
      clampedDivergence ==
        IF divergence >= 0 THEN Min(divergence, Len(cappedSolution)) ELSE -1
      start == Max(clampedProgress,
                   IF clampedDivergence >= 0 THEN clampedDivergence ELSE clampedProgress)
      remaining == Max(0, Len(cappedSolution) - start)
      takeCount == IF remaining >= 20 THEN 20 ELSE Min(10, remaining)
  IN IF remaining = 0 THEN << >>
     ELSE JsSlice(cappedSolution, start, start + takeCount)

---------------------------------------------------------------------------
(* Engine inputs *)

RECURSIVE SeqsUpTo(_, _)
SeqsUpTo(S, n) ==
  IF n = 0 THEN {<< >>}
  ELSE LET shorter == SeqsUpTo(S, n - 1)
       IN shorter \cup {Append(s, x) : s \in {t \in shorter : Len(t) = n - 1}, x \in S}

\* A reference solution of length n whose windows differ from one another.
RefOfLen(n) == [i \in 1..n |-> ((i - 1) + ((i - 1) \div 4)) % 4]

DivergenceSamples == {-2, -1, 0, 3, 12, MaxRefLen + 1}
CapSamples == {-1, 0, 9, 21, MaxRefLen, MaxRefLen + 2}

EngineIdleOut == [done |-> FALSE, index |-> -1, segment |-> << >>]

EngineIdleIn ==
  [op |-> "none", playerMoves |-> << >>, solutionMoves |-> << >>,
   progress |-> 0, divergence |-> -1, L |-> 0]
EngineIdle == engineIn = EngineIdleIn /\ engineOut = EngineIdleOut

NormIdleIn == [w |-> 0, h |-> 0, openings |-> << >>]
NormIdleOut == [done |-> FALSE, openings |-> << >>]
NormIdle == normIn = NormIdleIn /\ normOut = NormIdleOut
HintIdleOut == [done |-> FALSE, defaults |-> << >>, hints |-> << >>]
HintIdle == hintIn = [L |-> 0] /\ hintOut = HintIdleOut

DecIdleIn == [fn |-> "none", text |-> << >>, L |-> 0, w |-> 0, h |-> 0, grid |-> << >>]
DecIdleOut ==
  [done |-> FALSE, threw |-> FALSE, bytes |-> << >>, moves |-> << >>,
   openings |-> << >>, parsed |-> [kind |-> "null", items |-> << >>], path |-> "none",
   env |-> [pako |-> FALSE, inflate1 |-> [kind |-> "throw", bytes |-> << >>],
            inflate2 |-> [kind |-> "throw", bytes |-> << >>],
            jsonInflated |-> [kind |-> "throw", items |-> << >>],
            jsonRaw |-> [kind |-> "throw", items |-> << >>]]]
DecIdle == decIn = DecIdleIn /\ decOut = DecIdleOut

\* The authoring tool, not started.
NoGen == [stack |-> << >>, current |-> -1, x |-> 0, y |-> 0, i |-> 0]
NoSolve == [distance |-> << >>, prev |-> << >>, solveVisited |-> {},
            openSet |-> << >>, current |-> -1, i |-> 0]
NoHints == [set |-> FALSE, steps |-> << >>]
NoRoundTrip == [kind |-> "none", text |-> << >>, threw |-> FALSE,
                masks |-> << >>, moves |-> << >>, expected |-> << >>]
NoExport == [saved |-> FALSE, w |-> 0, h |-> 0, g |-> << >>, p |-> << >>, L |-> 0,
             hints |-> << >>, fallback |-> FALSE]
ToolIdle ==
  /\ gridWidth = 0 /\ gridHeight = 0 /\ walls = << >> /\ generated = << >>
  /\ algorithmKey = "none" /\ isAnimating = FALSE /\ pc = "off"
  /\ gen = NoGen /\ solve = NoSolve /\ pathCells = << >> /\ hints = NoHints
  /\ roundTrip = NoRoundTrip
  /\ hintEditMode = "none" /\ exported = NoExport

\* The game screen as its useState / useRef initialisers leave it.
BASE_RESOURCE_BUNDLE == 3
POSITIVE_INFINITY == 1000000   \* Number.POSITIVE_INFINITY: above every count
NoMaze == [v |-> 0, alg |-> "none", w |-> 0, h |-> 0, g |-> << >>, p |-> << >>,
           L |-> 0, skillTier |-> "none", difficulty |-> "none"]
NoHintRequest == [pending |-> FALSE, segmentLength |-> 0, highlight |-> << >>]
NoSliceRequest == [pending |-> FALSE, segmentIndex |-> -1, trimmedMoves |-> << >>,
                   trimmedCells |-> << >>, divergenceIndex |-> -1, correctCount |-> 0]
NoGameOut == [op |-> "none", threw |-> FALSE, returned |-> FALSE, directionIndex |-> -1,
              segmentIndex |-> -1, interstitials |-> 0]
GameIdle ==
  /\ puzzles = << >> /\ playedSet = {} /\ currentMaze = NoMaze
  /\ gameOpenings = << >> /\ gameSolutionMoves = << >>
  /\ gamePlayerMoves = << >> /\ playerCells = <<(<<0, 0>>)>>
  /\ gameDivergence = -1 /\ gameProgress = 0 /\ hintCells = << >>
  /\ availableHints = BASE_RESOURCE_BUNDLE /\ availableSlices = BASE_RESOURCE_BUNDLE
  /\ hintCount = 0 /\ sliceCount = 0
  /\ startTimestamp = FALSE /\ elapsedMs = 0 /\ completed = FALSE
  /\ isPro = FALSE
  /\ hintRequest = NoHintRequest /\ sliceRequest = NoSliceRequest
  /\ gameOut = NoGameOut

InitEngine ==
  /\ engineIn \in
       [op : {"firstDivergence"},
        playerMoves : SeqsUpTo(Moves, MaxMovesLen),
        solutionMoves : SeqsUpTo(Moves, MaxMovesLen),
        progress : {0}, divergence : {-1}, L : {0}]
       \cup
       [op : {"hintSegment"},
        playerMoves : {<< >>},
        solutionMoves : {RefOfLen(n) : n \in 0..MaxRefLen},
        progress : (-1)..(MaxRefLen + 1),
        divergence : DivergenceSamples,
        L : CapSamples]
  /\ engineOut = EngineIdleOut
  /\ NormIdle
  /\ HintIdle
  /\ DecIdle
  /\ ToolIdle
  /\ GameIdle
  /\ IapIdle

CallFirstDivergence ==
  /\ engineIn.op = "firstDivergence"
  /\ ~engineOut.done
  /\ engineOut' = [done |-> TRUE,
                   index |-> firstDivergence(engineIn.playerMoves, engineIn.solutionMoves),
                   segment |-> << >>]
  /\ UNCHANGED <<engineIn, normVars, hintVars, decVars, toolVars, gameVars, iapVars>>

CallHintSegment ==
  /\ engineIn.op = "hintSegment"
  /\ ~engineOut.done
  /\ engineOut' = [done |-> TRUE,
                   index |-> -1,
                   segment |-> hintSegment(engineIn.solutionMoves, engineIn.progress,
                                           engineIn.divergence, engineIn.L)]
  /\ UNCHANGED <<engineIn, normVars, hintVars, decVars, toolVars, gameVars, iapVars>>

NextEngine == CallFirstDivergence \/ CallHintSegment

SpecEngine == InitEngine /\ [][NextEngine]_vars

---------------------------------------------------------------------------
(* Claims about engine.ts *)

IsPrefixOf(a, b) == Len(a) <= Len(b) /\ \A i \in 1..Len(a) : a[i] = b[i]

FirstDivergenceReturned == engineIn.op = "firstDivergence" /\ engineOut.done
HintSegmentReturned == engineIn.op = "hintSegment" /\ engineOut.done

\* C1: firstDivergence(player, ref) is -1 iff player is a prefix of ref (equal
\* included), is ref.length iff ref is a proper prefix of player, and is
\* otherwise the least index below both lengths where the two differ.
C1_FirstDivergenceContract ==
  FirstDivergenceReturned =>
    LET player == engineIn.playerMoves
        ref == engineIn.solutionMoves
        d == engineOut.index
    IN /\ (d = -1) <=> IsPrefixOf(player, ref)
       /\ (d = Len(ref)) <=> (IsPrefixOf(ref, player) /\ Len(player) > Len(ref))
       /\ (~IsPrefixOf(player, ref) /\ ~IsPrefixOf(ref, player)) =>
            /\ d >= 0 /\ d < Min(Len(player), Len(ref))
            /\ player[d + 1] # ref[d + 1]
            /\ \A j \in 0..(d - 1) : player[j + 1] = ref[j + 1]

\* The spec's three examples: a prefix, an overrun and a middle divergence.
C1_Witness ==
  /\ FirstDivergenceReturned
  /\ \/ engineIn.playerMoves = <<0, 1, 2>> /\ engineIn.solutionMoves = <<0, 1>>
          /\ engineOut.index = 2
     \/ engineIn.playerMoves = <<0, 2>> /\ engineIn.solutionMoves = <<0, 1, 2>>
          /\ engineOut.index = 1

\* The window start and the clamped length, as the claims state them.
HintCappedLen(ref, cap) == Min(cap, Len(ref))
HintClamp(v, n) == Max(0, Min(v, n))
HintStart(ref, progress, divergence, cap) ==
  LET n == HintCappedLen(ref, cap)
  IN IF divergence >= 0
     THEN Max(HintClamp(progress, n), HintClamp(divergence, n))
     ELSE HintClamp(progress, n)

\* C2: with progress >= 0, divergence >= -1 and cap >= 0, hintSegment returns
\* exactly 20 moves when at least 20 remain from the window start to the end of
\* the cap-clamped reference, and min(10, remaining) moves otherwise.
C2_HintWindowLength ==
  (HintSegmentReturned /\ engineIn.progress >= 0 /\ engineIn.divergence >= -1
     /\ engineIn.L >= 0) =>
    LET ref == engineIn.solutionMoves
        remaining == HintCappedLen(ref, engineIn.L)
                       - HintStart(ref, engineIn.progress, engineIn.divergence, engineIn.L)
    IN Len(engineOut.segment) = IF remaining >= 20 THEN 20 ELSE Min(10, remaining)

\* 11..19 moves remain (10 are returned) and, elsewhere, 20 or more remain.
C2_Witness ==
  /\ HintSegmentReturned /\ engineIn.progress >= 0 /\ engineIn.divergence >= -1
  /\ engineIn.L >= 0
  /\ LET remaining == HintCappedLen(engineIn.solutionMoves, engineIn.L)
                        - HintStart(engineIn.solutionMoves, engineIn.progress,
                                    engineIn.divergence, engineIn.L)
     IN remaining = 15 /\ Len(engineOut.segment) = 10 /\ engineIn.divergence = 3
          /\ engineIn.progress < 3

\* The segment is the run of ref that starts at index start, and stays below n.
HintIsRunFrom(segment, ref, start, n) ==
  \A k \in 1..Len(segment) :
    /\ start + k - 1 < n
    /\ start + k <= Len(ref)
    /\ segment[k] = ref[start + k]

\* C3 as stated: for every cap, the returned list is the contiguous run of ref
\* starting at start and no returned move has an index >= n = min(cap, ref.length).
C3_HintWithinCapAlways ==
  HintSegmentReturned =>
    HintIsRunFrom(engineOut.segment, engineIn.solutionMoves,
                  HintStart(engineIn.solutionMoves, engineIn.progress,
                            engineIn.divergence, engineIn.L),
                  HintCappedLen(engineIn.solutionMoves, engineIn.L))

\* C3 amended: the same for every cap >= 0 (progress and divergence arbitrary).
C3_HintWithinCap ==
  (HintSegmentReturned /\ engineIn.L >= 0) =>
    HintIsRunFrom(engineOut.segment, engineIn.solutionMoves,
                  HintStart(engineIn.solutionMoves, engineIn.progress,
                            engineIn.divergence, engineIn.L),
                  HintCappedLen(engineIn.solutionMoves, engineIn.L))

\* The cap cuts the window short: the reference is longer than the cap and the
\* window ends exactly at the cap.
C3_Witness ==
  /\ HintSegmentReturned
  /\ engineIn.L = 9 /\ Len(engineIn.solutionMoves) > 20
  /\ engineIn.divergence = 3 /\ engineIn.progress = 1
  /\ engineOut.segment = SubSeq(engineIn.solutionMoves, 4, 9)

---------------------------------------------------------------------------
(* decoder.ts: directional masks and normalizeOpenings *)

DIRECTION_MASK_N == 1
DIRECTION_MASK_E == 2
DIRECTION_MASK_S == 4
DIRECTION_MASK_W == 8

\* mask & bit, mask | bit, mask & ~bit for a single-bit value
HasBit(mask, bit) == (mask \div bit) % 2 = 1
SetBit(mask, bit) == IF HasBit(mask, bit) THEN mask ELSE mask + bit
ClearBit(mask, bit) == IF HasBit(mask, bit) THEN mask - bit ELSE mask

\* openings[idx] = value on a Uint8Array held as a sequence (idx is 0-based);
\* a write past the end of a typed array is dropped.
SetAt(openings, idx, value) ==
  IF idx >= 0 /\ idx < Len(openings)
  THEN [openings EXCEPT ![idx + 1] = value]
  ELSE openings

\* openings[idx] ?? 0
GetAt(openings, idx) ==
  IF idx >= 0 /\ idx < Len(openings) THEN openings[idx + 1] ELSE 0

\* One iteration of the double loop of normalizeOpenings, for the cell idx.
\* `mask` is the local of the source: it is not refreshed after openings[idx]
\* is written, so the South write starts again from the stripped mask.
normalizeCell(openings, w, h, idx) ==
  LET x == idx % w
      y == idx \div w
      m0 == GetAt(openings, idx)
      m1 == IF x = 0 THEN ClearBit(m0, DIRECTION_MASK_W) ELSE m0
      m2 == IF x = w - 1 THEN ClearBit(m1, DIRECTION_MASK_E) ELSE m1
      m3 == IF y = 0 THEN ClearBit(m2, DIRECTION_MASK_N) ELSE m2
      mask == IF y = h - 1 THEN ClearBit(m3, DIRECTION_MASK_S) ELSE m3
      o1 == SetAt(openings, idx, mask)
      rightIdx == idx + 1
      rightMask == GetAt(o1, rightIdx)
      o2 == IF x < w - 1 /\ HasBit(mask, DIRECTION_MASK_E)
               /\ ~HasBit(rightMask, DIRECTION_MASK_W)
            THEN SetAt(o1, rightIdx, SetBit(rightMask, DIRECTION_MASK_W))
            ELSE o1
      o3 == IF x < w - 1 /\ HasBit(rightMask, DIRECTION_MASK_W)
               /\ ~HasBit(mask, DIRECTION_MASK_E)
            THEN SetAt(o2, idx, SetBit(mask, DIRECTION_MASK_E))
            ELSE o2
      downIdx == idx + w
      downMask == GetAt(o3, downIdx)
      o4 == IF y < h - 1 /\ HasBit(mask, DIRECTION_MASK_S)
               /\ ~HasBit(downMask, DIRECTION_MASK_N)
            THEN SetAt(o3, downIdx, SetBit(downMask, DIRECTION_MASK_N))
            ELSE o3
  IN IF y < h - 1 /\ HasBit(downMask, DIRECTION_MASK_N)
        /\ ~HasBit(mask, DIRECTION_MASK_S)
     THEN SetAt(o4, idx, SetBit(mask, DIRECTION_MASK_S))
     ELSE o4

\* The double loop: cells in row-major order, each iteration on the array the
\* previous one left.
RECURSIVE normalizeLoop(_, _, _, _)
normalizeLoop(openings, w, h, idx) ==
  IF idx >= w * h THEN openings
  ELSE normalizeLoop(normalizeCell(openings, w, h, idx), w, h, idx + 1)

\* Variant that opens the start cell always to the East, whatever the width.
ensureStartOpeningEastOnly(openings, w, h) ==
  IF GetAt(openings, 0) = 0
  THEN SetAt(SetAt(openings, 0, SetBit(GetAt(openings, 0), DIRECTION_MASK_E)),
             1, SetBit(GetAt(openings, 1), DIRECTION_MASK_W))
  ELSE openings

\* "Ensure start cell has at least one opening"
ensureStartOpening(openings, w, h) ==
  IF GetAt(openings, 0) = 0
  THEN IF w > 1
       THEN SetAt(SetAt(openings, 0, SetBit(GetAt(openings, 0), DIRECTION_MASK_E)),
                  1, SetBit(GetAt(openings, 1), DIRECTION_MASK_W))
       ELSE IF h > 1
            THEN SetAt(SetAt(openings, 0, SetBit(GetAt(openings, 0), DIRECTION_MASK_S)),
                       w, SetBit(GetAt(openings, w), DIRECTION_MASK_N))
            ELSE openings
  ELSE openings

\* "Ensure goal cell has at least one opening"
ensureGoalOpening(openings, w, h) ==
  LET goalIdx == (h - 1) * w + (w - 1)
  IN IF GetAt(openings, goalIdx) = 0
     THEN IF w > 1
          THEN LET o1 == SetAt(openings, goalIdx,
                               SetBit(GetAt(openings, goalIdx), DIRECTION_MASK_W))
               IN SetAt(o1, goalIdx - 1, SetBit(GetAt(o1, goalIdx - 1), DIRECTION_MASK_E))
          ELSE IF h > 1
               THEN LET o1 == SetAt(openings, goalIdx,
                                    SetBit(GetAt(openings, goalIdx), DIRECTION_MASK_N))
                    IN SetAt(o1, goalIdx - w, SetBit(GetAt(o1, goalIdx - w), DIRECTION_MASK_S))
               ELSE openings
     ELSE openings

normalizeOpenings(openings, w, h) ==
  ensureGoalOpening(ensureStartOpening(normalizeLoop(openings, w, h, 0), w, h), w, h)

\* Mask arrays of w*h cells of which at most NormMaxNonzero are non-zero.
RECURSIVE MaskArrays(_, _)
MaskArrays(n, k) ==
  IF n = 0 THEN {<< >>}
  ELSE {Append(a, 0) : a \in MaskArrays(n - 1, k)}
       \cup (IF k = 0 THEN {}
             ELSE {Append(a, m) : a \in MaskArrays(n - 1, k - 1), m \in 1..15})

InitNorm ==
  /\ normIn \in UNION {[w : {w}, h : {h}, openings : MaskArrays(w * h, NormMaxNonzero)] :
                        w \in 1..NormMaxW, h \in 1..NormMaxH}
  /\ normOut = NormIdleOut
  /\ HintIdle
  /\ EngineIdle
  /\ DecIdle
  /\ ToolIdle
  /\ GameIdle
  /\ IapIdle

CallNormalizeOpenings ==
  /\ normIn.w > 0
  /\ ~normOut.done
  /\ normOut' = [done |-> TRUE,
                 openings |-> normalizeOpenings(normIn.openings, normIn.w, normIn.h)]
  /\ UNCHANGED <<normIn, hintVars, engineVars, decVars, toolVars, gameVars, iapVars>>

NextNorm == CallNormalizeOpenings

SpecNorm == InitNorm /\ [][NextNorm]_vars

\* Adjacent cells agree on the passage they share.
MasksSymmetric(openings, w, h) ==
  \A x \in 0..(w - 1), y \in 0..(h - 1) :
    LET idx == y * w + x
    IN /\ x < w - 1 =>
            (HasBit(openings[idx + 1], DIRECTION_MASK_E)
               <=> HasBit(openings[idx + 2], DIRECTION_MASK_W))
       /\ y < h - 1 =>
            (HasBit(openings[idx + 1], DIRECTION_MASK_S)
               <=> HasBit(openings[idx + w + 1], DIRECTION_MASK_N))

\* C4: for every w x h array of 4-bit masks given to normalizeOpenings,
\* asymmetric ones included, the result is symmetric: East of the left cell
\* equals West of the right cell, South of the upper equals North of the lower.
\* The code breaks it: on the 2 x 2 array [0, 8, 1, 0] the cell 0 first gets East
\* (mirroring the West of cell 1) and then is overwritten with South alone.
C4_NormalizedSymmetric ==
  normOut.done => MasksSymmetric(normOut.openings, normIn.w, normIn.h)

---------------------------------------------------------------------------
(* decoder.ts: Base64 *)

\* Strings are sequences of character codes.
\* BASE64_ALPHABET.charCodeAt(i): A-Z, a-z, 0-9, '+', '/'
Base64AlphabetCode(i) ==
  IF i < 26 THEN 65 + i
  ELSE IF i < 52 THEN 97 + (i - 26)
  ELSE IF i < 62 THEN 48 + (i - 52)
  ELSE IF i = 62 THEN 43 ELSE 47

PadCode == 61    \* '='

\* BASE64_LOOKUP[code]: the alphabet index, 0 for '=', 255 for any other code
\* below 256. A code of 256 or more reads undefined, which the shifts and ORs
\* of the decoder turn into 0.
BASE64_LOOKUP(code) ==
  IF code = PadCode THEN 0
  ELSE IF \E i \in 0..63 : Base64AlphabetCode(i) = code
       THEN CHOOSE i \in 0..63 : Base64AlphabetCode(i) = code
       ELSE IF code < 256 THEN 255 ELSE 0

\* The characters /\s/ matches.
JsWhitespace ==
  {9, 10, 11, 12, 13, 32, 160, 5760, 8232, 8233, 8239, 8287, 12288, 65279}
    \cup 8192..8202

\* a | b on non-negative integers, bit by bit from the lowest
BitOrOf[a \in Nat, b \in Nat] ==
  IF a = 0 THEN b
  ELSE IF b = 0 THEN a
  ELSE (IF a % 2 = 1 \/ b % 2 = 1 THEN 1 ELSE 0) + 2 * BitOrOf[a \div 2, b \div 2]

BitOr(a, b) == BitOrOf[a, b]

\* input.replace(/\s/g, '')
Sanitize(input) == SelectSeq(input, LAMBDA c : c \notin JsWhitespace)

EndsWith(str, suffix) ==
  Len(str) >= Len(suffix)
    /\ SubSeq(str, Len(str) - Len(suffix) + 1, Len(str)) = suffix

\* (a << 18) | (b << 12) | (c << 6) | d for the four characters from index i
Base64Chunk(sanitized, i) ==
  LET a == BASE64_LOOKUP(sanitized[i + 1])
      b == BASE64_LOOKUP(sanitized[i + 2])
      c == BASE64_LOOKUP(sanitized[i + 3])
      d == BASE64_LOOKUP(sanitized[i + 4])
  IN BitOr(BitOr(a * 262144, b * 4096), BitOr(c * 64, d))

\* The decoding loop: output holds the outIndex bytes written so far.
RECURSIVE Base64Loop(_, _, _, _)
Base64Loop(sanitized, i, output, byteLength) ==
  IF i >= Len(sanitized) THEN output
  ELSE LET chunk == Base64Chunk(sanitized, i)
           o1 == IF Len(output) < byteLength
                 THEN Append(output, (chunk \div 65536) % 256) ELSE output
           o2 == IF Len(o1) < byteLength
                 THEN Append(o1, (chunk \div 256) % 256) ELSE o1
           o3 == IF Len(o2) < byteLength
                 THEN Append(o2, chunk % 256) ELSE o2
       IN Base64Loop(sanitized, i + 4, o3, byteLength)

\* Lines 73-92 of decodeBase64ToUint8Array: the bytes before any inflation.
Base64RawBytes(sanitized) ==
  LET padding == IF EndsWith(sanitized, <<PadCode, PadCode>>) THEN 2
                 ELSE IF EndsWith(sanitized, <<PadCode>>) THEN 1 ELSE 0
      byteLength == (Len(sanitized) \div 4) * 3 - padding
  IN Base64Loop(sanitized, 0, << >>, byteLength)
\* The two external primitives, pako.inflate and JSON.parse, are not code of
\* the repository. A call may end in any outcome that the bytes do not rule out:
\*   pako.inflate(b): throws, or returns nothing (undefined or no bytes), or,
\*     when b starts with a zlib or gzip header, returns some bytes;
\*   JSON.parse(text of b): throws, or returns null or a non-array value, or,
\*     when the first character after white space is '[', returns some array.
\* An environment env fixes the outcome of each call of one decoding:
\*   env.pako          the module was loaded (require('pako') did not throw)
\*   env.inflate1      pako.inflate(output) inside decodeBase64ToUint8Array
\*   env.inflate2      pako.inflate(bytes) inside tryParseBase64ZlibJson
\*   env.jsonInflated  JSON.parse of the text inflate2 returned
\*   env.jsonRaw       JSON.parse of the text of the bytes themselves
InflateThrows == [kind |-> "throw", bytes |-> << >>]
InflateNothing == [kind |-> "empty", bytes |-> << >>]
InflateBytes(d) == [kind |-> "bytes", bytes |-> d]

JsonThrows == [kind |-> "throw", items |-> << >>]
JsonNull == [kind |-> "null", items |-> << >>]
JsonScalar == [kind |-> "scalar", items |-> << >>]
JsonArray(items) == [kind |-> "array", items |-> items]

\* The elements of a parsed array: an array of numbers, a number, or null.
ItemRow(row) == [kind |-> "row", row |-> row]
ItemNum == [kind |-> "num", row |-> << >>]
ItemNull == [kind |-> "null", row |-> << >>]

\* decodeBase64ToUint8Array: [threw, bytes]. The length test comes first; the
\* 'eJ' prefix makes it return the inflated bytes when inflation yields any.
\* A plausible slip: the length test is left out, the whole chunks are decoded.
decodeBase64NoLengthCheck(input, env) ==
  LET sanitized == Sanitize(input)
      usable == SubSeq(sanitized, 1, 4 * (Len(sanitized) \div 4))
  IN [threw |-> FALSE, bytes |-> Base64RawBytes(usable)]

decodeBase64ToUint8Array(input, env) ==
  LET sanitized == Sanitize(input)
      output == Base64RawBytes(sanitized)
  IN IF Len(sanitized) % 4 # 0
     THEN [threw |-> TRUE, bytes |-> << >>]
     ELSE IF Len(sanitized) >= 2 /\ SubSeq(sanitized, 1, 2) = <<101, 74>>
               /\ env.pako /\ env.inflate1.kind = "bytes"
          THEN [threw |-> FALSE, bytes |-> env.inflate1.bytes]
          ELSE [threw |-> FALSE, bytes |-> output]

\* The statements inside the outer try of tryParseBase64ZlibJson: [threw, value].
\* The decoding of the base64 text is the one statement no inner try covers.
tryParseBody(str, env) ==
  LET decoded == decodeBase64ToUint8Array(str, env)
      rawParse == IF env.jsonRaw.kind = "throw" THEN JsonNull ELSE env.jsonRaw
  IN IF decoded.threw THEN [threw |-> TRUE, value |-> JsonNull]
     ELSE IF ~env.pako THEN [threw |-> FALSE, value |-> JsonNull]
     ELSE IF env.inflate2.kind = "bytes"
          THEN [threw |-> FALSE,
                value |-> IF env.jsonInflated.kind = "throw" THEN rawParse
                          ELSE env.jsonInflated]
          ELSE IF env.inflate2.kind = "throw" THEN [threw |-> FALSE, value |-> rawParse]
          ELSE [threw |-> FALSE, value |-> JsonNull]

\* A plausible slip: the outer try is missing.
tryParseNoOuterCatch(str, env) == tryParseBody(str, env)

\* The outer try: whatever the body throws becomes null.
tryParseOutcome(str, env) ==
  CHOOSE outcome \in {IF body.threw THEN [threw |-> FALSE, value |-> JsonNull]
                      ELSE body : body \in {tryParseBody(str, env)}} : TRUE

\* tryParseBase64ZlibJson: the parsed value, or JsonNull for null.
tryParseBase64ZlibJson(str, env) == tryParseOutcome(str, env).value
---------------------------------------------------------------------------
(* decoder.ts: decodeMoves *)

SeqMax(seq) == CHOOSE m \in {seq[i] : i \in 1..Len(seq)} :
                 \A i \in 1..Len(seq) : seq[i] <= m

\* The map callback of the normalization: a pair of odd positive numbers is
\* halved, any other pair is returned as it is.
NormalizeCoord(item) ==
  LET r == item.row[1]
      c == item.row[2]
  IN IF r % 2 = 1 /\ r > 0 /\ c % 2 = 1 /\ c > 0
     THEN ItemRow(<<(r - 1) \div 2, (c - 1) \div 2>>)
     ELSE ItemRow(<<r, c>>)

\* The loop over consecutive coordinates: [threw, moves]. Destructuring an
\* element that is not an array throws a TypeError.
RECURSIVE CoordLoop(_, _, _, _)
CoordLoop(normCoords, i, moves, L) ==
  IF ~(i < Len(normCoords) - 1 /\ Len(moves) < L)
  THEN [threw |-> FALSE, moves |-> moves]
  ELSE IF normCoords[i + 1].kind # "row" \/ normCoords[i + 2].kind # "row"
       THEN [threw |-> TRUE, moves |-> << >>]
       ELSE LET dr == normCoords[i + 2].row[1] - normCoords[i + 1].row[1]
                dc == normCoords[i + 2].row[2] - normCoords[i + 1].row[2]
                next == IF dr = -1 /\ dc = 0 THEN Append(moves, 0)
                        ELSE IF dr = 0 /\ dc = 1 THEN Append(moves, 1)
                        ELSE IF dr = 1 /\ dc = 0 THEN Append(moves, 2)
                        ELSE IF dr = 0 /\ dc = -1 THEN Append(moves, 3)
                        ELSE moves
            IN CoordLoop(normCoords, i + 1, next, L)

\* Lines 292-321: the coordinate-array path on a non-empty parsed array.
\* c[0] of null throws; c[0] of a number is undefined and makes the maximum NaN,
\* so that neither comparison with L holds.
CoordMoves(coords, L) ==
  LET idx == 1..Len(coords)
      anyNull == \E i \in idx : coords[i].kind = "null"
      anyNum == \E i \in idx : coords[i].kind = "num"
      maxR == SeqMax([i \in idx |-> coords[i].row[1]])
      maxC == SeqMax([i \in idx |-> coords[i].row[2]])
      normCoords == IF ~anyNum /\ (maxR > L \/ maxC > L)
                    THEN [i \in idx |-> NormalizeCoord(coords[i])]
                    ELSE coords
  IN IF anyNull THEN [threw |-> TRUE, moves |-> << >>]
     ELSE CoordLoop(normCoords, 0, << >>, L)

\* A plausible slip: the inner loop runs through all four shifts of the byte
\* without looking at L.
LegacyByteMovesNoClip(byte, shift, moves, L) ==
  moves \o [k \in 1..((8 - shift) \div 2) |-> (byte \div (2 ^ (shift + 2 * (k - 1)))) % 4]

\* The inner loop of the legacy path: shifts 0, 2, 4, 6 of one byte.
RECURSIVE LegacyByteMoves(_, _, _, _)
LegacyByteMoves(byte, shift, moves, L) ==
  IF ~(shift <= 6 /\ Len(moves) < L) THEN moves
  ELSE LegacyByteMoves(byte, shift + 2,
                       Append(moves, (byte \div (2 ^ shift)) % 4), L)

\* The outer loop of the legacy path.
RECURSIVE LegacyMoves(_, _, _, _)
LegacyMoves(bytes, i, moves, L) ==
  IF ~(i < Len(bytes) /\ Len(moves) < L) THEN moves
  ELSE LegacyMoves(bytes, i + 1, LegacyByteMoves(bytes[i + 1], 0, moves, L), L)

\* decodeMoves from what the two decodings of p gave: [threw, moves, path],
\* path naming the branch that returned.
decodeMovesOf(parsed, decoded, L) ==
  LET byCoords == CoordMoves(parsed.items, L)
  IN IF parsed.kind = "array" /\ Len(parsed.items) > 0 /\ ~byCoords.threw
     THEN [threw |-> FALSE, moves |-> byCoords.moves, path |-> "coords"]
     ELSE IF decoded.threw
          THEN [threw |-> TRUE, moves |-> << >>, path |-> "legacy"]
          ELSE [threw |-> FALSE,
                moves |-> LegacyMoves(decoded.bytes, 0, << >>, L),
                path |-> "legacy"]

\* decodeMoves(p, L); each decoding of p is computed once
decodeMoves(p, L, env) ==
  CHOOSE result \in {decodeMovesOf(parsed, decoded, L) :
                       parsed \in {tryParseBase64ZlibJson(p, env)},
                       decoded \in {decodeBase64ToUint8Array(p, env)}} : TRUE
---------------------------------------------------------------------------
(* decoder.ts: decodeOpenings *)

\* expandedGrid[r][c] is truthy; an index past the row, or a row that is a
\* number, reads undefined
GridTruthy(grid, r, c) ==
  /\ r >= 0 /\ r < Len(grid)
  /\ grid[r + 1].kind = "row"
  /\ c >= 0 /\ c < Len(grid[r + 1].row)
  /\ grid[r + 1].row[c + 1] # 0

\* indexing a row that is null throws
GridRowNull(grid, r) == r >= 0 /\ r < Len(grid) /\ grid[r + 1].kind = "null"

ExpandedCols(grid) == IF grid[1].kind = "row" THEN Len(grid[1].row) ELSE 0

\* A plausible slip: only the entry next to the centre is looked at.
ExpandedCellMaskAdjacentOnly(grid, x, y) ==
  LET r == 2 * y + 1
      c == 2 * x + 1
      cols == ExpandedCols(grid)
  IN IF r < Len(grid) /\ c < cols /\ GridTruthy(grid, r, c)
     THEN BitOr(BitOr(IF r >= 2 /\ GridTruthy(grid, r - 1, c)
                      THEN DIRECTION_MASK_N ELSE 0,
                      IF c <= cols - 3 /\ GridTruthy(grid, r, c + 1)
                      THEN DIRECTION_MASK_E ELSE 0),
                BitOr(IF r <= Len(grid) - 3 /\ GridTruthy(grid, r + 1, c)
                      THEN DIRECTION_MASK_S ELSE 0,
                      IF c >= 2 /\ GridTruthy(grid, r, c - 1)
                      THEN DIRECTION_MASK_W ELSE 0))
     ELSE 0

\* the mask of the cell (x, y) of the expanded grid, its centre at (2y+1, 2x+1)
ExpandedCellMask(grid, x, y) ==
  LET r == 2 * y + 1
      c == 2 * x + 1
      cols == ExpandedCols(grid)
  IN IF r < Len(grid) /\ c < cols /\ GridTruthy(grid, r, c)
     THEN BitOr(BitOr(IF r >= 2 /\ GridTruthy(grid, r - 1, c) /\ GridTruthy(grid, r - 2, c)
                      THEN DIRECTION_MASK_N ELSE 0,
                      IF c <= cols - 3 /\ GridTruthy(grid, r, c + 1)
                           /\ GridTruthy(grid, r, c + 2)
                      THEN DIRECTION_MASK_E ELSE 0),
                BitOr(IF r <= Len(grid) - 3 /\ GridTruthy(grid, r + 1, c)
                           /\ GridTruthy(grid, r + 2, c)
                      THEN DIRECTION_MASK_S ELSE 0,
                      IF c >= 2 /\ GridTruthy(grid, r, c - 1) /\ GridTruthy(grid, r, c - 2)
                      THEN DIRECTION_MASK_W ELSE 0))
     ELSE 0

\* the rows the cell (x, y) indexes, in the order of the conditions
ExpandedCellThrows(grid, x, y) ==
  LET r == 2 * y + 1
      c == 2 * x + 1
  IN /\ r < Len(grid) /\ c < ExpandedCols(grid)
     /\ \/ GridRowNull(grid, r)
        \/ /\ GridTruthy(grid, r, c)
           /\ \/ r >= 2 /\ GridRowNull(grid, r - 1)
              \/ r >= 2 /\ GridTruthy(grid, r - 1, c) /\ GridRowNull(grid, r - 2)
              \/ r <= Len(grid) - 3 /\ GridRowNull(grid, r + 1)
              \/ r <= Len(grid) - 3 /\ GridTruthy(grid, r + 1, c)
                   /\ GridRowNull(grid, r + 2)

\* convertExpandedToRegular: [threw, openings]
convertExpandedToRegular(grid, w, h) ==
  IF \E y \in 0..(h - 1), x \in 0..(w - 1) : ExpandedCellThrows(grid, x, y)
  THEN [threw |-> TRUE, openings |-> << >>]
  ELSE [threw |-> FALSE,
        openings |-> [k \in 1..(w * h) |->
                        ExpandedCellMask(grid, (k - 1) % w, (k - 1) \div w)]]

\* A plausible slip: the high nibble is read first.
LegacyOpeningsHighFirst(bytes, totalCells) ==
  [k \in 1..totalCells |->
     IF (k + 1) \div 2 <= Len(bytes)
     THEN IF k % 2 = 0 THEN bytes[(k + 1) \div 2] % 16
          ELSE (bytes[(k + 1) \div 2] \div 16) % 16
     ELSE 0]

\* the legacy loop: two cells per byte, low nibble first, until w * h cells
\* are filled; the cells the bytes do not reach stay 0
LegacyOpenings(bytes, totalCells) ==
  [k \in 1..totalCells |->
     IF (k + 1) \div 2 <= Len(bytes)
     THEN IF k % 2 = 1 THEN bytes[(k + 1) \div 2] % 16
          ELSE (bytes[(k + 1) \div 2] \div 16) % 16
     ELSE 0]

\* the preview log maps over each of the first five rows: a row that is not
\* an array throws there
PreviewThrows(grid) == \E k \in 1..Min(5, Len(grid)) : grid[k].kind # "row"

\* decodeOpenings: [threw, openings, path]. Whatever throws inside the try
\* block leads to the legacy loop; new Uint8Array throws on a negative length.
decodeOpenings(g, w, h, env) ==
  LET parsed == tryParseBase64ZlibJson(g, env)
      grid == parsed.items
      expanded == /\ parsed.kind = "array"
                  /\ Len(grid) > 0 /\ grid[1].kind = "row"
                  /\ Len(grid) = 2 * h + 1 /\ Len(grid[1].row) = 2 * w + 1
      converted == convertExpandedToRegular(grid, w, h)
      decoded == decodeBase64ToUint8Array(g, env)
  IN IF expanded /\ ~PreviewThrows(grid) /\ ~converted.threw
     THEN [threw |-> FALSE, openings |-> normalizeOpenings(converted.openings, w, h),
           path |-> "expanded"]
     ELSE IF decoded.threw \/ w * h < 0
          THEN [threw |-> TRUE, openings |-> << >>, path |-> "legacy"]
          ELSE [threw |-> FALSE, openings |-> LegacyOpenings(decoded.bytes, w * h),
                path |-> "legacy"]
---------------------------------------------------------------------------
(* Decoder inputs *)

\* pako.inflate can return bytes only for a zlib header (deflate method, window
\* bits in range, header check a multiple of 31) or the gzip magic 1f 8b.
MayInflate(b) ==
  /\ Len(b) >= 2
  /\ \/ b[1] % 16 = 8 /\ b[1] \div 16 <= 7 /\ (b[1] * 256 + b[2]) % 31 = 0
     \/ b[1] = 31 /\ b[2] = 139

\* TextDecoder drops a leading byte-order mark; JSON.parse skips white space.
RECURSIVE SkipJsonWhitespace(_)
SkipJsonWhitespace(b) ==
  IF Len(b) > 0 /\ b[1] \in {9, 10, 13, 32} THEN SkipJsonWhitespace(Tail(b)) ELSE b

JsonSignificant(b) ==
  SkipJsonWhitespace(IF Len(b) >= 3 /\ SubSeq(b, 1, 3) = <<239, 187, 191>>
                     THEN SubSeq(b, 4, Len(b)) ELSE b)

\* JSON.parse can return an array only for a text that starts with '[' and has
\* room for the closing ']'.
MayBeJsonArray(b) == LET t == JsonSignificant(b) IN Len(t) >= 2 /\ t[1] = 91

MaxJsonItems == 3     \* longest parsed array

PairSamples == {<<0, 0>>, <<0, 1>>, <<1, 1>>, <<1, 3>>}
ItemSamples == {ItemNum, ItemNull} \cup {ItemRow(pair) : pair \in PairSamples}
JsonArraySamples == {JsonArray(items) : items \in SeqsUpTo(ItemSamples, MaxJsonItems)}

\* Parsed grids: a 3 x 3 grid of ones; the 3 x 5 grid of two cells with a
\* passage between them; a 5 x 5 grid of four cells, the upper two joined; a
\* 3 x 3 grid whose middle row is null, and one whose middle row is a number;
\* a 7 x 3 grid whose sixth row is null.
GridSamples ==
  {
    JsonArray(<<ItemRow(<<1, 1, 1>>), ItemRow(<<1, 1, 1>>), ItemRow(<<1, 1, 1>>)>>),
    JsonArray(<<ItemRow(<<0, 0, 0, 0, 0>>), ItemRow(<<0, 1, 1, 1, 0>>),
                ItemRow(<<0, 0, 0, 0, 0>>)>>),
    JsonArray(<<ItemRow(<<0, 0, 0, 0, 0>>), ItemRow(<<0, 1, 1, 1, 0>>),
                ItemRow(<<0, 0, 0, 1, 0>>), ItemRow(<<0, 1, 0, 0, 0>>),
                ItemRow(<<0, 0, 0, 0, 0>>)>>),
    JsonArray(<<ItemRow(<<1, 1, 1>>), ItemNull, ItemRow(<<1, 1, 1>>)>>),
    JsonArray(<<ItemRow(<<1, 1, 1>>), ItemNum, ItemRow(<<1, 1, 1>>)>>),
    JsonArray(<<ItemRow(<<0, 0, 0>>), ItemRow(<<0, 1, 0>>), ItemRow(<<0, 1, 0>>),
                ItemRow(<<0, 1, 0>>), ItemRow(<<0, 0, 0>>), ItemNull,
                ItemRow(<<0, 0, 0>>)>>)
  }

\* What pako.inflate may return: '[]', '1', and a zlib header once more.
InflatedSamples == {<<91, 93>>, <<49>>, <<120, 156>>}

InflateOutcomes(b) ==
  {InflateThrows, InflateNothing}
    \cup (IF MayInflate(b) THEN {InflateBytes(d) : d \in InflatedSamples} ELSE {})

JsonOutcomes(b) ==
  {JsonThrows}
    \cup (IF Len(JsonSignificant(b)) > 0 THEN {JsonNull, JsonScalar} ELSE {})
    \cup (IF MayBeJsonArray(b) THEN JsonArraySamples \cup GridSamples ELSE {})

EnvWithoutPako ==
  [pako |-> FALSE, inflate1 |-> InflateThrows, inflate2 |-> InflateThrows,
   jsonInflated |-> JsonThrows, jsonRaw |-> JsonThrows]

\* The environments a decoding of text can run in. pako.inflate is a function:
\* the two inflations agree when they are given the same bytes. An outcome the
\* decoding never asks for is fixed, so that it does not multiply the states.
EnvsWithPako(text) ==
  LET sanitized == Sanitize(text)
      raw == Base64RawBytes(sanitized)
      prefixed == Len(sanitized) >= 2 /\ SubSeq(sanitized, 1, 2) = <<101, 74>>
      bytesOf(i1) == IF prefixed /\ i1.kind = "bytes" THEN i1.bytes ELSE raw
      second(i1) == IF bytesOf(i1) = raw THEN {i1} ELSE InflateOutcomes(bytesOf(i1))
      parsedInflated(i2) ==
        IF i2.kind = "bytes" THEN JsonOutcomes(i2.bytes) ELSE {JsonThrows}
      parsedRaw(i1, i2, ji) ==
        IF i2.kind = "throw" \/ (i2.kind = "bytes" /\ ji.kind = "throw")
        THEN JsonOutcomes(bytesOf(i1)) ELSE {JsonThrows}
  IN UNION {UNION {UNION {
       {[pako |-> TRUE, inflate1 |-> i1, inflate2 |-> i2,
         jsonInflated |-> ji, jsonRaw |-> jr] : jr \in parsedRaw(i1, i2, ji)}
       : ji \in parsedInflated(i2)} : i2 \in second(i1)} : i1 \in InflateOutcomes(raw)}

ValidEnvs(text) ==
  IF Len(Sanitize(text)) % 4 # 0
  THEN {EnvWithoutPako, [EnvWithoutPako EXCEPT !.pako = TRUE]}
  ELSE {EnvWithoutPako} \cup EnvsWithPako(text)

\* The environments of a bare decodeBase64ToUint8Array call: it asks for one
\* inflation, and only behind the 'eJ' prefix.
Base64Envs(text) ==
  LET sanitized == Sanitize(text)
      prefixed == Len(sanitized) % 4 = 0 /\ Len(sanitized) >= 2
                    /\ SubSeq(sanitized, 1, 2) = <<101, 74>>
  IN {EnvWithoutPako}
       \cup {[EnvWithoutPako EXCEPT !.pako = TRUE, !.inflate1 = i1] :
               i1 \in IF prefixed THEN InflateOutcomes(Base64RawBytes(sanitized))
                      ELSE {InflateThrows}}

\* Characters of the texts given to decodeBase64ToUint8Array:
\* 'e', 'J', 'w', 'W', '=', a space, and '-' (not in the alphabet).
TextChars == {101, 74, 119, 87, 61, 32, 45}

MaxDecodeL == 5       \* largest maxLength given to decodeMoves

\* Payloads given to decodeMoves:
\*   ''         empty
\*   'CQ=='     one byte 0x09: a tab; moves E,S,N,N
\*   '5Bs='     bytes 0xE4 0x1B: moves N,E,S,W,W,S,E,N
\*   'W10='     bytes '[]'
\*   'IFtd'     bytes ' []'
\*   'eJw='     bytes 0x78 0x9C, a zlib header, behind the 'eJ' prefix
\*   'H4s='     bytes 0x1F 0x8B, the gzip magic
\*   'CQ='      three characters: not a multiple of 4
\*   'C Q = ='  'CQ==' with white space
\*   '-w=='     an invalid character
MovePayloadSamples ==
  {
    << >>,
    <<67, 81, 61, 61>>,
    <<53, 66, 115, 61>>,
    <<87, 49, 48, 61>>,
    <<73, 70, 116, 100>>,
    <<101, 74, 119, 61>>,
    <<72, 52, 115, 61>>,
    <<67, 81, 61>>,
    <<67, 32, 81, 32, 61, 32, 61>>,
    <<45, 119, 61, 61>>
  }

DecodeBase64Inputs ==
  [fn : {"decodeBase64ToUint8Array"}, text : SeqsUpTo(TextChars, MaxTextLen), L : {0},
   w : {0}, h : {0}, grid : {<< >>}]

DecodeMovesInputs ==
  [fn : {"decodeMoves"}, text : MovePayloadSamples, L : (-1)..MaxDecodeL,
   w : {0}, h : {0}, grid : {<< >>}]

\* Payloads given to decodeOpenings:
\*   'W10='     bytes '[]'
\*   'IFtd'     bytes ' []'
\*   'ww=='     one byte 0xC3: the masks 3 and 12
\*   'ow=='     one byte 0xA3: the masks 3 and 10
\*   ''         empty
\*   'eJw='     a zlib header behind the 'eJ' prefix
\*   'CQ='      three characters: not a multiple of 4
OpeningPayloadSamples ==
  {
    <<87, 49, 48, 61>>,
    <<73, 70, 116, 100>>,
    <<119, 119, 61, 61>>,
    <<111, 119, 61, 61>>,
    << >>,
    <<101, 74, 119, 61>>,
    <<67, 81, 61>>
  }

\* width and height given to decodeOpenings
DimensionSamples == {<<1, 1>>, <<2, 1>>, <<2, 2>>, <<1, 3>>}

DecodeOpeningsInputs ==
  {[fn |-> "decodeOpenings", text |-> t, L |-> 0, w |-> wh[1], h |-> wh[2],
    grid |-> << >>] :
     t \in OpeningPayloadSamples, wh \in DimensionSamples}

TryParseInputs ==
  [fn : {"tryParseBase64ZlibJson"}, text : MovePayloadSamples \cup OpeningPayloadSamples,
   L : {0}, w : {0}, h : {0}, grid : {<< >>}]

\* Expanded grids of exactly (2h+1) x (2w+1) entries given to
\* convertExpandedToRegular: every choice of 0/1 for the entries inside the
\* border, the border all walls or all passable.
ExpandedGrids(w, h) ==
  {[r \in 1..(2 * h + 1) |->
      ItemRow([c \in 1..(2 * w + 1) |->
                 IF r \in 2..(2 * h) /\ c \in 2..(2 * w)
                 THEN inner[<<r, c>>] ELSE border])] :
     inner \in [(2..(2 * h)) \X (2..(2 * w)) -> {0, 1}], border \in {0, 1}}

ConvertSizes == {<<2, 1>>, <<1, 2>>, <<2, 2>>}

ConvertInputs ==
  UNION {{[fn |-> "convertExpandedToRegular", text |-> << >>, L |-> 0,
           w |-> wh[1], h |-> wh[2], grid |-> grid] :
            grid \in ExpandedGrids(wh[1], wh[2])} : wh \in ConvertSizes}

MaxPathL == 5         \* longest solution whose coordinate list is decoded

SolutionSizes == {<<2, 2>>, <<3, 2>>, <<2, 3>>}

\* the cells <<x, y>> a list of moves (0 = N, 1 = E, 2 = S, 3 = W) walks
\* through from (0, 0)
RECURSIVE WalkCells(_)
WalkCells(moves) ==
  IF Len(moves) = 0 THEN <<(<<0, 0>>)>>
  ELSE LET walked == WalkCells(SubSeq(moves, 1, Len(moves) - 1))
           cell == walked[Len(walked)]
           m == moves[Len(moves)]
       IN Append(walked,
                 <<cell[1] + (IF m = 1 THEN 1 ELSE IF m = 3 THEN -1 ELSE 0),
                   cell[2] + (IF m = 2 THEN 1 ELSE IF m = 0 THEN -1 ELSE 0)>>)

\* the solutions of the w x h mazes: the walks from (0, 0) to (w-1, h-1) that
\* stay inside the grid and enter no cell twice
Solutions(w, h) ==
  {moves \in UNION {[1..n -> 0..3] : n \in 1..MaxPathL} :
     \E cells \in {WalkCells(moves)} :
       /\ \A k \in 1..Len(cells) : cells[k] \in (0..(w - 1)) \X (0..(h - 1))
       /\ \A j, k \in 1..Len(cells) : cells[j] = cells[k] => j = k
       /\ cells[Len(cells)] = <<w - 1, h - 1>>}

\* the parsed path payload of a solution: the centres [2y+1, 2x+1] of the
\* cells it visits, in the expanded grid
CentresOf(moves) ==
  LET cells == WalkCells(moves)
  IN [k \in 1..Len(cells) |-> ItemRow(<<2 * cells[k][2] + 1, 2 * cells[k][1] + 1>>)]

\* decodeMoves(p, L) for a payload p that tryParseBase64ZlibJson parses into
\* the list of centres of a solution of L moves; the list is in grid
SolutionInputs ==
  UNION {{[fn |-> "decodeMoves(centres)", text |-> << >>, L |-> Len(moves),
           w |-> wh[1], h |-> wh[2], grid |-> CentresOf(moves)] :
            moves \in Solutions(wh[1], wh[2])} : wh \in SolutionSizes}

InitDecode ==
  /\ decIn \in DecodeBase64Inputs \cup DecodeMovesInputs \cup DecodeOpeningsInputs
                \cup TryParseInputs \cup ConvertInputs \cup SolutionInputs
  /\ decOut = DecIdleOut
  /\ EngineIdle
  /\ NormIdle
  /\ HintIdle
  /\ ToolIdle
  /\ GameIdle
  /\ IapIdle

CallDecodeBase64 ==
  /\ decIn.fn = "decodeBase64ToUint8Array"
  /\ ~decOut.done
  /\ \E env \in Base64Envs(decIn.text) :
       LET res == decodeBase64ToUint8Array(decIn.text, env)
       IN decOut' = [done |-> TRUE, threw |-> res.threw, bytes |-> res.bytes,
                     moves |-> << >>, openings |-> << >>, parsed |-> JsonNull,
                     path |-> "none", env |-> env]
  /\ UNCHANGED <<decIn, engineVars, normVars, hintVars, toolVars, gameVars, iapVars>>

CallDecodeMoves ==
  /\ decIn.fn = "decodeMoves"
  /\ ~decOut.done
  /\ \E env \in ValidEnvs(decIn.text) :
       \E res \in {decodeMoves(decIn.text, decIn.L, env)} :
         decOut' = [done |-> TRUE, threw |-> res.threw, bytes |-> << >>,
                    moves |-> res.moves, openings |-> << >>, parsed |-> JsonNull,
                    path |-> res.path, env |-> env]
  /\ UNCHANGED <<decIn, engineVars, normVars, hintVars, toolVars, gameVars, iapVars>>

CallDecodeOpenings ==
  /\ decIn.fn = "decodeOpenings"
  /\ ~decOut.done
  /\ \E env \in ValidEnvs(decIn.text) :
       \E res \in {decodeOpenings(decIn.text, decIn.w, decIn.h, env)} :
         decOut' = [done |-> TRUE, threw |-> res.threw, bytes |-> << >>,
                    moves |-> << >>, openings |-> res.openings, parsed |-> JsonNull,
                    path |-> res.path, env |-> env]
  /\ UNCHANGED <<decIn, engineVars, normVars, hintVars, toolVars, gameVars, iapVars>>

CallTryParse ==
  /\ decIn.fn = "tryParseBase64ZlibJson"
  /\ ~decOut.done
  /\ \E env \in ValidEnvs(decIn.text) :
       \E res \in {tryParseOutcome(decIn.text, env)} :
         decOut' = [done |-> TRUE, threw |-> res.threw, bytes |-> << >>,
                    moves |-> << >>, openings |-> << >>, parsed |-> res.value,
                    path |-> "none", env |-> env]
  /\ UNCHANGED <<decIn, engineVars, normVars, hintVars, toolVars, gameVars, iapVars>>

CallConvertExpanded ==
  /\ decIn.fn = "convertExpandedToRegular"
  /\ ~decOut.done
  /\ \E res \in {convertExpandedToRegular(decIn.grid, decIn.w, decIn.h)} :
       decOut' = [done |-> TRUE, threw |-> res.threw, bytes |-> << >>,
                  moves |-> << >>, openings |-> res.openings, parsed |-> JsonNull,
                  path |-> "none", env |-> EnvWithoutPako]
  /\ UNCHANGED <<decIn, engineVars, normVars, hintVars, toolVars, gameVars, iapVars>>

\* decodeMoves on a payload whose parsed value is the array decIn.grid: the
\* coordinate path returns before the bytes of the payload are looked at
CallDecodeSolution ==
  /\ decIn.fn = "decodeMoves(centres)"
  /\ ~decOut.done
  /\ \E res \in {decodeMovesOf(JsonArray(decIn.grid),
                                [threw |-> FALSE, bytes |-> << >>], decIn.L)} :
       decOut' = [done |-> TRUE, threw |-> res.threw, bytes |-> << >>,
                  moves |-> res.moves, openings |-> << >>,
                  parsed |-> JsonArray(decIn.grid),
                  path |-> res.path, env |-> [EnvWithoutPako EXCEPT !.pako = TRUE]]
  /\ UNCHANGED <<decIn, engineVars, normVars, hintVars, toolVars, gameVars, iapVars>>

NextDecode ==
  \/ CallDecodeBase64
  \/ CallDecodeMoves
  \/ CallDecodeOpenings
  \/ CallTryParse
  \/ CallConvertExpanded
  \/ CallDecodeSolution

SpecDecode == InitDecode /\ [][NextDecode]_vars

\* C9: decodeBase64ToUint8Array fails, and produces no bytes at all, whenever the
\* input length after removing white space is not a multiple of 4.
C9_BadLengthThrows ==
  (decIn.fn = "decodeBase64ToUint8Array" /\ decOut.done
     /\ Len(Sanitize(decIn.text)) % 4 # 0) =>
    (decOut.threw /\ decOut.bytes = << >>)

\* Three characters and a space: the chunk 'eJw' alone would decode to bytes.
C9_Witness ==
  /\ decIn.fn = "decodeBase64ToUint8Array" /\ decOut.done
  /\ decIn.text = <<101, 32, 74, 119>>
  /\ decOut.threw

\* C10: for every payload and every maxLength L, the list decodeMoves returns
\* has at most max(L, 0) elements, each in {0,1,2,3}, on both paths.
C10_MovesClipped ==
  (decIn.fn = "decodeMoves" /\ decOut.done /\ ~decOut.threw) =>
    /\ Len(decOut.moves) <= Max(decIn.L, 0)
    /\ \A i \in 1..Len(decOut.moves) : decOut.moves[i] \in Moves

\* Both paths cut a longer list short: two bytes hold 8 moves, three
\* coordinates hold 2 moves.
C10_Witness ==
  /\ decIn.fn = "decodeMoves" /\ decOut.done /\ ~decOut.threw
  /\ \/ /\ decOut.path = "legacy" /\ decIn.L = 5 /\ Len(decOut.moves) = 5
        /\ decIn.text = <<53, 66, 115, 61>>
     \/ /\ decOut.path = "coords" /\ decIn.L = 1 /\ Len(decOut.moves) = 1
        /\ Len(decOut.env.jsonRaw.items) = 3


-----------------------------------------------------------------------------
\* The authoring tool (temp/app.js): MazeVisualizer and GenerationAlgorithms.
\* A cell is its index y * gridWidth + x.  Fields that only feed the drawing
\* (order, maxOrder, maxDistance, inPath, activeCell, frontierCells,
\* queueCells) are left out: no branch of the tool reads them.

Algorithms == {"recursiveBacktracker", "growingTreeRightWall", "huntAndKill",
               "sidewinderBidirectional", "wilsons"}

directions == <<"N", "E", "S", "W">>

Dx(d) == CASE d = "E" -> 1 [] d = "W" -> -1 [] OTHER -> 0

Dy(d) == CASE d = "S" -> 1 [] d = "N" -> -1 [] OTHER -> 0

CellX(c, W) == c % W

CellY(c, W) == c \div W

\* null is -1
getCell(x, y, W, H) ==
  IF x < 0 \/ y < 0 \/ x >= W \/ y >= H THEN -1 ELSE y * W + x

Cells(W, H) == 0 .. (W * H - 1)

NewCellWalls == [d \in {"N", "E", "S", "W"} |-> TRUE]

\* the set of [cell, dir] with the neighbouring cell inside the grid
neighbors(c, W, H) ==
  { nb \in { [cell |-> getCell(CellX(c, W) + Dx(d), CellY(c, W) + Dy(d), W, H),
              dir |-> d] : d \in {"N", "E", "S", "W"} } : nb.cell # -1 }

RECURSIVE accessibleLoop(_, _, _, _, _)
accessibleLoop(wl, c, W, H, k) ==
  IF k > Len(directions) THEN << >>
  ELSE LET d == directions[k]
           nb == getCell(CellX(c, W) + Dx(d), CellY(c, W) + Dy(d), W, H)
           rest == accessibleLoop(wl, c, W, H, k + 1)
       IN IF ~wl[c][d] /\ nb # -1 THEN <<nb>> \o rest ELSE rest

\* A plausible slip: the walls are not looked at.
accessibleNeighborsThroughWalls(wl, c, W, H) ==
  accessibleLoop([x \in DOMAIN wl |-> [d \in {"N", "E", "S", "W"} |-> FALSE]], c, W, H, 1)

\* the neighbours reachable through an open side, in the order N, E, S, W
accessibleNeighbors(wl, c, W, H) == accessibleLoop(wl, c, W, H, 1)

markGenerated(g, c) == [g EXCEPT ![c] = TRUE]

OpenSide(wl, c, d) == [wl EXCEPT ![c] = [@ EXCEPT ![d] = FALSE]]

\* A plausible slip: only the side of the current cell is opened.
carvePassageOneSide(wl, c, n, W) ==
  LET dx == CellX(n, W) - CellX(c, W)
      dy == CellY(n, W) - CellY(c, W)
  IN CASE dx = 1 /\ dy = 0 -> OpenSide(wl, c, "E")
       [] dx = -1 /\ dy = 0 -> OpenSide(wl, c, "W")
       [] dy = 1 /\ dx = 0 -> OpenSide(wl, c, "S")
       [] dy = -1 /\ dx = 0 -> OpenSide(wl, c, "N")
       [] OTHER -> wl

\* A plausible slip: the branch for a neighbour to the west is missing.
carvePassageNoWest(wl, c, n, W) ==
  LET dx == CellX(n, W) - CellX(c, W)
      dy == CellY(n, W) - CellY(c, W)
  IN CASE dx = 1 /\ dy = 0 -> OpenSide(OpenSide(wl, c, "E"), n, "W")
       [] dy = 1 /\ dx = 0 -> OpenSide(OpenSide(wl, c, "S"), n, "N")
       [] dy = -1 /\ dx = 0 -> OpenSide(OpenSide(wl, c, "N"), n, "S")
       [] OTHER -> wl

carvePassage(wl, c, n, W) ==
  LET dx == CellX(n, W) - CellX(c, W)
      dy == CellY(n, W) - CellY(c, W)
  IN CASE dx = 1 /\ dy = 0 -> OpenSide(OpenSide(wl, c, "E"), n, "W")
       [] dx = -1 /\ dy = 0 -> OpenSide(OpenSide(wl, c, "W"), n, "E")
       [] dy = 1 /\ dx = 0 -> OpenSide(OpenSide(wl, c, "S"), n, "N")
       [] dy = -1 /\ dx = 0 -> OpenSide(OpenSide(wl, c, "N"), n, "S")
       [] OTHER -> wl

StartCell == 0

GoalCell == gridWidth * gridHeight - 1

\* A plausible slip: the goal is opened to the north.
openEntrancesWallsGoalNorth(wl, W, H) == OpenSide(OpenSide(wl, 0, "N"), W * H - 1, "N")

\* start loses its north wall, goal its south wall; both count as generated
openEntrancesWalls(wl, W, H) == OpenSide(OpenSide(wl, 0, "N"), W * H - 1, "S")

openEntrancesGenerated(g, W, H) == markGenerated(markGenerated(g, 0), W * H - 1)

\* setup(): the grid is built from the two sliders and the algorithm select.
GridSizes ==
  { wh \in (1..MaxSide) \X (1..MaxSide) : wh[1] * wh[2] <= MaxCells }

FreshSolve(W, H) ==
  [distance |-> [c \in Cells(W, H) |-> -1], prev |-> [c \in Cells(W, H) |-> -1],
   solveVisited |-> {}, openSet |-> << >>, current |-> -1, i |-> 0]

InitTool ==
  /\ \E wh \in GridSizes :
       /\ gridWidth = wh[1] /\ gridHeight = wh[2]
       /\ walls = [c \in Cells(wh[1], wh[2]) |-> NewCellWalls]
       /\ generated = [c \in Cells(wh[1], wh[2]) |-> FALSE]
       /\ solve = FreshSolve(wh[1], wh[2])
  /\ algorithmKey \in Algorithms
  /\ isAnimating = FALSE
  /\ pc = "idle"
  /\ gen = NoGen
  /\ pathCells = << >>
  /\ hints = NoHints
  /\ roundTrip = NoRoundTrip
  /\ hintEditMode = "none"
  /\ exported = NoExport
  /\ EngineIdle
  /\ NormIdle
  /\ HintIdle
  /\ DecIdle
  /\ GameIdle
  /\ IapIdle

UnvisitedNeighbors(c) ==
  { nb.cell : nb \in { n \in neighbors(c, gridWidth, gridHeight) : ~generated[n.cell] } }

Last(q) == q[Len(q)]

Front(q) == SubSeq(q, 1, Len(q) - 1)

RemoveAt(q, k) == SubSeq(q, 1, k - 1) \o SubSeq(q, k + 1, Len(q))

\* generateMaze up to the generator's first renderStep: the guard, resetGrid
\* and the generator's opening lines.
ClickGenerate ==
  /\ ~isAnimating
  /\ isAnimating' = TRUE
  /\ walls' = [c \in Cells(gridWidth, gridHeight) |-> NewCellWalls]
  /\ solve' = FreshSolve(gridWidth, gridHeight)
  /\ pathCells' = << >>
  /\ hints' = NoHints
  /\ roundTrip' = NoRoundTrip
  /\ hintEditMode' = "none"
  /\ exported' = NoExport
  /\ LET fresh == [c \in Cells(gridWidth, gridHeight) |-> FALSE]
     IN CASE algorithmKey = "recursiveBacktracker" ->
               /\ generated' = markGenerated(fresh, StartCell)
               /\ gen' = [NoGen EXCEPT !.stack = <<StartCell>>]
               /\ pc' = "recursiveBacktracker"
          [] algorithmKey = "growingTreeRightWall" ->
               \E s \in Cells(gridWidth, gridHeight) :
                 /\ generated' = markGenerated(fresh, s)
                 /\ gen' = [NoGen EXCEPT !.stack = <<s>>]
                 /\ pc' = "growingTreeRightWall"
          [] algorithmKey = "huntAndKill" ->
               \E s \in Cells(gridWidth, gridHeight) :
                 /\ generated' = markGenerated(fresh, s)
                 /\ gen' = [NoGen EXCEPT !.current = s]
                 /\ pc' = "huntAndKill"
          [] algorithmKey = "sidewinderBidirectional" ->
               /\ generated' = markGenerated(fresh, 0)
               /\ gen' = [NoGen EXCEPT !.x = 1, !.y = 0]
               /\ pc' = "sidewinderBidirectional"
          [] algorithmKey = "wilsons" ->
               \E root \in Cells(gridWidth, gridHeight) :
                 /\ generated' = markGenerated(fresh, root)
                 /\ gen' = NoGen
                 /\ pc' = "wilsons"
  /\ UNCHANGED <<gridWidth, gridHeight, algorithmKey, engineVars, normVars, hintVars, decVars, gameVars, iapVars>>

\* one pass of recursiveBacktracker's loop, up to its renderStep
StepRecursiveBacktracker ==
  /\ pc = "recursiveBacktracker"
  /\ gen.stack # << >>
  /\ LET current == Last(gen.stack)
         unvisited == UnvisitedNeighbors(current)
     IN IF unvisited # {}
        THEN \E nextCell \in unvisited :
               /\ walls' = carvePassage(walls, current, nextCell, gridWidth)
               /\ generated' = markGenerated(generated, nextCell)
               /\ gen' = [gen EXCEPT !.stack = Append(@, nextCell)]
        ELSE /\ gen' = [gen EXCEPT !.stack = Front(@)]
             /\ UNCHANGED <<walls, generated>>
  /\ UNCHANGED <<gridWidth, gridHeight, algorithmKey, isAnimating, pc, solve,
                 pathCells, hints, roundTrip, hintEditMode, exported,
                 engineVars, normVars, hintVars, decVars, gameVars, iapVars>>

\* one pass of growingTreeRightWall's loop: the newest cell three times out of
\* four, any cell of the list otherwise; an east neighbour is preferred
StepGrowingTree ==
  /\ pc = "growingTreeRightWall"
  /\ gen.stack # << >>
  /\ \E index \in 1..Len(gen.stack) :
       LET current == gen.stack[index]
           unvisited == UnvisitedNeighbors(current)
           east == getCell(CellX(current, gridWidth) + 1, CellY(current, gridWidth),
                           gridWidth, gridHeight)
           choices == IF east \in unvisited THEN {east} ELSE unvisited
       IN IF unvisited # {}
          THEN \E nextCell \in choices :
                 /\ walls' = carvePassage(walls, current, nextCell, gridWidth)
                 /\ generated' = markGenerated(generated, nextCell)
                 /\ gen' = [gen EXCEPT !.stack = Append(@, nextCell)]
          ELSE /\ gen' = [gen EXCEPT !.stack = RemoveAt(@, index)]
               /\ UNCHANGED <<walls, generated>>
  /\ UNCHANGED <<gridWidth, gridHeight, algorithmKey, isAnimating, pc, solve,
                 pathCells, hints, roundTrip, hintEditMode, exported,
                 engineVars, normVars, hintVars, decVars, gameVars, iapVars>>


GeneratedNeighbors(c) ==
  { nb.cell : nb \in { n \in neighbors(c, gridWidth, gridHeight) : generated[n.cell] } }

\* A plausible slip: the hunt scans the first row only.
HuntableFirstRow == { c \in Cells(gridWidth, gridHeight) :
                        /\ ~generated[c] /\ GeneratedNeighbors(c) # {}
                        /\ CellY(c, gridWidth) = 0 }

\* the cells the hunt can pick up: not generated, next to a generated cell
Huntable == { c \in Cells(gridWidth, gridHeight) :
                ~generated[c] /\ GeneratedNeighbors(c) # {} }

\* the hunt scans row by row, west to east: the first such cell is the least index
HuntFound == CHOOSE c \in Huntable : \A o \in Huntable : c <= o

\* one pass of huntAndKill's loop: walk on, or hunt when the walk is stuck
StepHuntAndKill ==
  /\ pc = "huntAndKill"
  /\ LET unvisited == UnvisitedNeighbors(gen.current)
     IN IF unvisited # {}
        THEN \E nextCell \in unvisited :
               /\ walls' = carvePassage(walls, gen.current, nextCell, gridWidth)
               /\ generated' = markGenerated(generated, nextCell)
               /\ gen' = [gen EXCEPT !.current = nextCell]
        ELSE /\ Huntable # {}
             /\ \E visitedNeighbor \in GeneratedNeighbors(HuntFound) :
                  /\ walls' = carvePassage(walls, HuntFound, visitedNeighbor, gridWidth)
                  /\ generated' = markGenerated(generated, HuntFound)
                  /\ gen' = [gen EXCEPT !.current = HuntFound]
  /\ UNCHANGED <<gridWidth, gridHeight, algorithmKey, isAnimating, pc, solve,
                 pathCells, hints, roundTrip, hintEditMode, exported,
                 engineVars, normVars, hintVars, decVars, gameVars, iapVars>>

\* sidewinderBidirectional's loop variables after the cell (x, y): row 0 runs
\* west to east from x = 1, odd rows run westward, even rows eastward;
\* y = gridHeight when the rows are over
SidewinderEastward(y) == y % 2 = 0

SidewinderStartX(y, W) == IF SidewinderEastward(y) THEN 0 ELSE W - 1

SidewinderStep(y) == IF SidewinderEastward(y) THEN 1 ELSE -1

SidewinderAfter(x, y, W) ==
  IF y = 0
  THEN IF x + 1 < W THEN <<x + 1, 0>> ELSE <<SidewinderStartX(1, W), 1>>
  ELSE LET nx == x + SidewinderStep(y)
           endX == IF SidewinderEastward(y) THEN W ELSE -1
       IN IF nx # endX THEN <<nx, y>> ELSE <<SidewinderStartX(y + 1, W), y + 1>>

\* where the loops stand once the first cell is drawn: a one-column grid has
\* no cell left in row 0
SidewinderAt ==
  IF gen.y = 0 /\ gen.x >= gridWidth THEN <<SidewinderStartX(1, gridWidth), 1>>
  ELSE <<gen.x, gen.y>>

\* one cell of sidewinderBidirectional, up to its renderStep
StepSidewinder ==
  /\ pc = "sidewinderBidirectional"
  /\ SidewinderAt[2] < gridHeight
  /\ LET x == SidewinderAt[1]
         y == SidewinderAt[2]
         cell == getCell(x, y, gridWidth, gridHeight)
         after == SidewinderAfter(x, y, gridWidth)
     IN IF y = 0
        THEN /\ generated' = markGenerated(generated, cell)
             /\ walls' = carvePassage(walls, getCell(x - 1, 0, gridWidth, gridHeight),
                                      cell, gridWidth)
             /\ gen' = [gen EXCEPT !.x = after[1], !.y = after[2], !.stack = << >>]
        ELSE LET run == Append(gen.stack, cell)
                 eastward == SidewinderEastward(y)
                 atBoundary == (eastward /\ x = gridWidth - 1) \/ (~eastward /\ x = 0)
             IN /\ generated' = markGenerated(generated, cell)
                /\ \/ /\ ~atBoundary
                      /\ walls' = carvePassage(walls, cell,
                                     getCell(x + SidewinderStep(y), y, gridWidth, gridHeight),
                                     gridWidth)
                      /\ gen' = [gen EXCEPT !.x = after[1], !.y = after[2],
                                            !.stack = run]
                   \/ \E k \in 1..Len(run) :
                        LET runCell == run[k]
                            northNeighbor == getCell(CellX(runCell, gridWidth), y - 1,
                                                     gridWidth, gridHeight)
                        IN /\ walls' = IF northNeighbor # -1
                                       THEN carvePassage(walls, runCell, northNeighbor,
                                                         gridWidth)
                                       ELSE walls
                           /\ gen' = [gen EXCEPT !.x = after[1], !.y = after[2],
                                                 !.stack = << >>]
  /\ UNCHANGED <<gridWidth, gridHeight, algorithmKey, isAnimating, pc, solve,
                 pathCells, hints, roundTrip, hintEditMode, exported,
                 engineVars, normVars, hintVars, decVars, gameVars, iapVars>>

\* allUnvisited holds exactly the keys of the cells not yet generated: a key
\* is deleted where its cell is marked
allUnvisited == { c \in Cells(gridWidth, gridHeight) : ~generated[c] }

IndexIn(q, c) == CHOOSE k \in 1..Len(q) : q[k] = c

InSeq(q, c) == \E k \in 1..Len(q) : q[k] = c

\* one pass of the random walk: visitedInWalk maps each cell of path to its
\* position, so a cell met again cuts the path back to that position
WalkOn(path, current) ==
  \E nb \in neighbors(current, gridWidth, gridHeight) :
    LET nextCell == nb.cell
    IN /\ gen' = [gen EXCEPT
                    !.stack = IF InSeq(path, nextCell)
                              THEN SubSeq(path, 1, IndexIn(path, nextCell))
                              ELSE Append(path, nextCell),
                    !.current = nextCell, !.i = 0]
       /\ UNCHANGED <<walls, generated>>

\* wilsons: a new walk from a random unvisited cell, one more step of the walk,
\* or the next passage of a finished walk; gen.i > 0 while carving
StepWilsons ==
  /\ pc = "wilsons"
  /\ \/ /\ gen.i = 0 /\ gen.current = -1
        /\ allUnvisited # {}
        /\ \E start \in allUnvisited : WalkOn(<<start>>, start)
     \/ /\ gen.i = 0 /\ gen.current # -1
        /\ ~generated[gen.current]
        /\ WalkOn(gen.stack, gen.current)
     \/ /\ gen.i = 0 /\ gen.current # -1
        /\ generated[gen.current]
        /\ walls' = carvePassage(walls, gen.stack[1], gen.stack[2], gridWidth)
        /\ generated' = markGenerated(markGenerated(generated, gen.stack[1]), gen.stack[2])
        /\ gen' = IF Len(gen.stack) > 2 THEN [gen EXCEPT !.i = 2]
                  ELSE NoGen
     \/ /\ gen.i > 0
        /\ walls' = carvePassage(walls, gen.stack[gen.i], gen.stack[gen.i + 1], gridWidth)
        /\ generated' = markGenerated(generated, gen.stack[gen.i + 1])
        /\ gen' = IF gen.i + 1 < Len(gen.stack) THEN [gen EXCEPT !.i = @ + 1]
                  ELSE NoGen
  /\ UNCHANGED <<gridWidth, gridHeight, algorithmKey, isAnimating, pc, solve,
                 pathCells, hints, roundTrip, hintEditMode, exported,
                 engineVars, normVars, hintVars, decVars, gameVars, iapVars>>

\* the generator's loop is over
GeneratorDone ==
  CASE pc = "recursiveBacktracker" -> gen.stack = << >>
    [] pc = "growingTreeRightWall" -> gen.stack = << >>
    [] pc = "huntAndKill" -> UnvisitedNeighbors(gen.current) = {} /\ Huntable = {}
    [] pc = "sidewinderBidirectional" -> SidewinderAt[2] >= gridHeight
    [] pc = "wilsons" -> gen = NoGen /\ allUnvisited = {}
    [] OTHER -> FALSE

\* generateMaze after the generator returns: openEntrances, then the finally
FinishGenerate ==
  /\ GeneratorDone
  /\ walls' = openEntrancesWalls(walls, gridWidth, gridHeight)
  /\ generated' = openEntrancesGenerated(generated, gridWidth, gridHeight)
  /\ isAnimating' = FALSE
  /\ pc' = "idle"
  /\ gen' = NoGen
  /\ hintEditMode' = "none"
  /\ UNCHANGED <<gridWidth, gridHeight, algorithmKey, solve, pathCells, hints,
                 roundTrip, exported, engineVars, normVars, hintVars, decVars, gameVars, iapVars>>

StepGenerator ==
  \/ StepRecursiveBacktracker
  \/ StepGrowingTree
  \/ StepHuntAndKill
  \/ StepSidewinder
  \/ StepWilsons


heuristic(c, W, H) ==
  LET dx == CellX(c, W) - (W - 1)
      dy == CellY(c, W) - (H - 1)
  IN (IF dx < 0 THEN -dx ELSE dx) + (IF dy < 0 THEN -dy ELSE dy)

\* Infinity is kept as -1
DistanceLess(a, b) == b = -1 \/ a < b

Score(sv, c) == sv.distance[c] + heuristic(c, gridWidth, gridHeight)

\* the first position of openSet with the least distance + heuristic
BestIndex(sv) ==
  CHOOSE k \in 1..Len(sv.openSet) :
    /\ \A j \in 1..Len(sv.openSet) : Score(sv, sv.openSet[k]) <= Score(sv, sv.openSet[j])
    /\ \A j \in 1..(k - 1) : Score(sv, sv.openSet[j]) > Score(sv, sv.openSet[k])

\* popBest, then current.solveVisited = true; inOpenSet is membership of openSet
popBest(sv) ==
  LET best == sv.openSet[BestIndex(sv)]
  IN [sv EXCEPT !.openSet = RemoveAt(@, BestIndex(sv)),
                !.current = best,
                !.solveVisited = @ \cup {best}]

RECURSIVE relaxLoop(_, _, _, _)
relaxLoop(sv, current, nbs, k) ==
  IF k > Len(nbs) THEN sv
  ELSE LET neighbor == nbs[k]
           tentativeDistance == sv.distance[current] + 1
           improved == DistanceLess(tentativeDistance, sv.distance[neighbor])
           addToOpenSet == ~InSeq(sv.openSet, neighbor) /\ neighbor \notin sv.solveVisited
           sv2 == IF improved
                  THEN [sv EXCEPT !.distance[neighbor] = tentativeDistance,
                                  !.prev[neighbor] = current,
                                  !.openSet = IF addToOpenSet THEN Append(@, neighbor)
                                              ELSE @]
                  ELSE sv
       IN relaxLoop(sv2, current, nbs, k + 1)

RECURSIVE pathBack(_, _)
pathBack(prev, c) == IF c = -1 THEN << >> ELSE Append(pathBack(prev, prev[c]), c)

RECURSIVE DefaultHintsFrom(_, _)
DefaultHintsFrom(step, L) ==
  IF step >= L THEN << >> ELSE <<step>> \o DefaultHintsFrom(step + 20, L)

\* A plausible slip: the checkpoint at the last step is left out.
createDefaultHintsWithoutLast(L) ==
  IF L <= 0 THEN << >> ELSE DefaultHintsFrom(20, L)

\* every 20th step below L, then L itself
createDefaultHints(L) ==
  IF L <= 0 THEN << >>
  ELSE LET every20 == DefaultHintsFrom(20, L)
       IN IF InSeq(every20, L) THEN every20 ELSE Append(every20, L)

RECURSIVE SortedSeq(_)
SortedSeq(S) ==
  IF S = {} THEN << >>
  ELSE LET m == CHOOSE a \in S : \A b \in S : a <= b
       IN <<m>> \o SortedSeq(S \ {m})

\* A plausible slip: the steps within 1..maxStep in the order given.
normalizeHintStepsUnsorted(steps, maxStep) ==
  IF maxStep <= 0 THEN << >>
  ELSE SelectSeq(steps, LAMBDA value : value > 0 /\ value <= maxStep)

\* the steps within 1..maxStep, each once, ascending
normalizeHintSteps(steps, maxStep) ==
  IF maxStep <= 0 THEN << >>
  ELSE SortedSeq({ steps[k] : k \in { j \in 1..Len(steps) :
                                        steps[j] > 0 /\ steps[j] <= maxStep } })

\* updateHintButtonsState: the two hint buttons are disabled, and the hint mode
\* is left, when there is no path or an animation runs
updateHintButtonsState(mode, path, animating) ==
  IF ~(Len(path) > 1) \/ animating THEN "none" ELSE mode

\* solveMaze up to its first renderStep
ClickSolve ==
  /\ ~isAnimating
  /\ generated[StartCell]
  /\ isAnimating' = TRUE
  /\ pathCells' = << >>
  /\ solve' = popBest([FreshSolve(gridWidth, gridHeight) EXCEPT
                         !.distance[StartCell] = 0, !.openSet = <<StartCell>>])
  /\ pc' = "solveLoop"
  /\ roundTrip' = NoRoundTrip
  /\ hintEditMode' = "none"
  /\ exported' = NoExport
  /\ UNCHANGED <<gridWidth, gridHeight, walls, generated, algorithmKey, gen, hints,
                 engineVars, normVars, hintVars, decVars, gameVars, iapVars>>

\* after the renderStep of the search loop: the goal test, the neighbours, and
\* on to the next popBest; or out of the loop
StepSolve ==
  /\ pc = "solveLoop"
  /\ IF solve.current = GoalCell
     THEN LET path == pathBack(solve.prev, GoalCell)
              solutionLength == Max(0, Len(path) - 1)
          IN /\ pathCells' = path
             /\ hints' = [set |-> TRUE,
                          steps |-> normalizeHintSteps(createDefaultHints(solutionLength),
                                                       solutionLength)]
             /\ solve' = [solve EXCEPT !.i = 1]
             /\ pc' = "solvePath"
             /\ UNCHANGED <<isAnimating, hintEditMode>>
     ELSE LET relaxed == relaxLoop(solve, solve.current,
                                   accessibleNeighbors(walls, solve.current,
                                                       gridWidth, gridHeight), 1)
          IN IF relaxed.openSet # << >>
             THEN /\ solve' = popBest(relaxed)
                  /\ UNCHANGED <<pc, isAnimating, pathCells, hints, hintEditMode>>
             ELSE /\ solve' = relaxed
                  /\ pc' = "idle"
                  /\ isAnimating' = FALSE
                  /\ hintEditMode' = updateHintButtonsState(hintEditMode, pathCells, FALSE)
                  /\ UNCHANGED <<pathCells, hints>>
  /\ roundTrip' = NoRoundTrip
  /\ exported' = NoExport
  /\ UNCHANGED <<gridWidth, gridHeight, walls, generated, algorithmKey, gen,
                 engineVars, normVars, hintVars, decVars, gameVars, iapVars>>

\* the path is drawn one cell per renderStep, then the tool is idle again
StepHighlight ==
  /\ pc = "solvePath"
  /\ IF solve.i < Len(pathCells)
     THEN /\ solve' = [solve EXCEPT !.i = @ + 1]
          /\ UNCHANGED <<pc, isAnimating, hintEditMode>>
     ELSE /\ solve' = [solve EXCEPT !.i = 0]
          /\ pc' = "idle"
          /\ isAnimating' = FALSE
          /\ hintEditMode' = updateHintButtonsState(hintEditMode, pathCells, FALSE)
  /\ roundTrip' = NoRoundTrip
  /\ exported' = NoExport
  /\ UNCHANGED <<gridWidth, gridHeight, walls, generated, algorithmKey, gen,
                 pathCells, hints, engineVars, normVars, hintVars, decVars, gameVars, iapVars>>

-----------------------------------------------------------------------------
\* The packers of the authoring tool and decodeOpenings of the game.

\* btoa on three bytes at a time; '=' fills a last group of one or two bytes
RECURSIVE bytesToBase64(_)
bytesToBase64(u8) ==
  IF Len(u8) = 0 THEN << >>
  ELSE IF Len(u8) = 1
       THEN <<Base64AlphabetCode(u8[1] \div 4), Base64AlphabetCode((u8[1] % 4) * 16),
              PadCode, PadCode>>
  ELSE IF Len(u8) = 2
       THEN <<Base64AlphabetCode(u8[1] \div 4),
              Base64AlphabetCode((u8[1] % 4) * 16 + u8[2] \div 16),
              Base64AlphabetCode((u8[2] % 16) * 4), PadCode>>
  ELSE <<Base64AlphabetCode(u8[1] \div 4),
         Base64AlphabetCode((u8[1] % 4) * 16 + u8[2] \div 16),
         Base64AlphabetCode((u8[2] % 16) * 4 + u8[3] \div 64),
         Base64AlphabetCode(u8[3] % 64)>> \o bytesToBase64(SubSeq(u8, 4, Len(u8)))

\* A plausible slip: the bits of East and West change places.
openingsMaskEastWestSwapped(cellWalls) ==
  BitOr(BitOr(IF cellWalls["N"] = FALSE THEN DIRECTION_MASK_N ELSE 0,
              IF cellWalls["W"] = FALSE THEN DIRECTION_MASK_E ELSE 0),
        BitOr(IF cellWalls["S"] = FALSE THEN DIRECTION_MASK_S ELSE 0,
              IF cellWalls["E"] = FALSE THEN DIRECTION_MASK_W ELSE 0))

\* the bit of a side is set when its wall is absent
openingsMask(cellWalls) ==
  BitOr(BitOr(IF cellWalls["N"] = FALSE THEN DIRECTION_MASK_N ELSE 0,
              IF cellWalls["E"] = FALSE THEN DIRECTION_MASK_E ELSE 0),
        BitOr(IF cellWalls["S"] = FALSE THEN DIRECTION_MASK_S ELSE 0,
              IF cellWalls["W"] = FALSE THEN DIRECTION_MASK_W ELSE 0))

\* the masks of the cells in row-major order, from index 0
CellMasks(wl, w, h) == [k \in 1..(w * h) |-> openingsMask(wl[k - 1])]

\* two cells per byte: the even index in the low nibble, the odd one above it
PackedNibbles(masks) ==
  [b \in 1..((Len(masks) + 1) \div 2) |->
     BitOr(masks[2 * b - 1] % 16,
           IF 2 * b <= Len(masks) THEN (masks[2 * b] % 16) * 16 ELSE 0)]

packGridOpeningsToBase64(wl, w, h) == bytesToBase64(PackedNibbles(CellMasks(wl, w, h)))

\* [threw, moves]: a step that is not to a side neighbour throws
RECURSIVE movesFromPathCoords(_, _)
movesFromPathCoords(coords, W) ==
  IF Len(coords) < 2 THEN [threw |-> FALSE, moves |-> << >>]
  ELSE LET before == movesFromPathCoords(Front(coords), W)
           prev == coords[Len(coords) - 1]
           current == coords[Len(coords)]
           dx == CellX(current, W) - CellX(prev, W)
           dy == CellY(current, W) - CellY(prev, W)
           move == CASE dx = 0 /\ dy = -1 -> 0
                     [] dx = 1 /\ dy = 0 -> 1
                     [] dx = 0 /\ dy = 1 -> 2
                     [] dx = -1 /\ dy = 0 -> 3
                     [] OTHER -> -1
       IN IF before.threw \/ move = -1 THEN [threw |-> TRUE, moves |-> << >>]
          ELSE [threw |-> FALSE, moves |-> Append(before.moves, move)]

MoveAt(moves, k) == IF k <= Len(moves) THEN moves[k] % 4 ELSE 0

\* A plausible slip: the first move goes to the highest two bits.
PackedMovesHighFirst(moves) ==
  [b \in 1..((Len(moves) + 3) \div 4) |->
     MoveAt(moves, 4 * b - 3) * 64 + MoveAt(moves, 4 * b - 2) * 16
       + MoveAt(moves, 4 * b - 1) * 4 + MoveAt(moves, 4 * b)]

\* four moves per byte, the first in the lowest two bits
PackedMoves(moves) ==
  [b \in 1..((Len(moves) + 3) \div 4) |->
     MoveAt(moves, 4 * b - 3) + MoveAt(moves, 4 * b - 2) * 4
       + MoveAt(moves, 4 * b - 1) * 16 + MoveAt(moves, 4 * b) * 64]

packMovesBase64(moves) ==
  IF Len(moves) = 0 THEN << >> ELSE bytesToBase64(PackedMoves(moves))

\* The grid of the tool, packed as the save handler packs it and decoded as
\* the game decodes it.
RoundTripGrid ==
  /\ pc = "idle"
  /\ ~isAnimating
  /\ generated[StartCell] /\ generated[GoalCell]
  /\ \E g \in {packGridOpeningsToBase64(walls, gridWidth, gridHeight)} :
       \E env \in ValidEnvs(g) :
         \E res \in {decodeOpenings(g, gridWidth, gridHeight, env)} :
           roundTrip' = [kind |-> "grid", text |-> g, threw |-> res.threw,
                         masks |-> res.openings, moves |-> << >>,
                         expected |-> CellMasks(walls, gridWidth, gridHeight)]
  /\ exported' = NoExport
  /\ UNCHANGED <<gridWidth, gridHeight, walls, generated, algorithmKey, isAnimating,
                 pc, gen, solve, pathCells, hints, hintEditMode,
                 engineVars, normVars, hintVars, decVars, gameVars, iapVars>>

\* The solved path, packed as the save handler packs it and decoded with
\* maxLength = the number of moves.
RoundTripMoves ==
  /\ pc = "idle"
  /\ ~isAnimating
  /\ Len(pathCells) >= 1
  /\ \E packedMoves \in {movesFromPathCoords(pathCells, gridWidth)} :
       /\ ~packedMoves.threw
       /\ \E p \in {packMovesBase64(packedMoves.moves)} :
            \E env \in ValidEnvs(p) :
              \E res \in {decodeMoves(p, Len(pathCells) - 1, env)} :
                roundTrip' = [kind |-> "moves", text |-> p, threw |-> res.threw,
                              masks |-> << >>, moves |-> res.moves,
                              expected |-> packedMoves.moves]
  /\ exported' = NoExport
  /\ UNCHANGED <<gridWidth, gridHeight, walls, generated, algorithmKey, isAnimating,
                 pc, gen, solve, pathCells, hints, hintEditMode,
                 engineVars, normVars, hintVars, decVars, gameVars, iapVars>>

\* applyGridChange: resetGrid with the values of the two sliders, the buttons
\* refreshed and the hint mode left
applyGridChange(width, height) ==
  /\ gridWidth' = width
  /\ gridHeight' = height
  /\ walls' = [c \in Cells(width, height) |-> NewCellWalls]
  /\ generated' = [c \in Cells(width, height) |-> FALSE]
  /\ solve' = FreshSolve(width, height)
  /\ pathCells' = << >>
  /\ hints' = NoHints
  /\ hintEditMode' = "none"
  /\ roundTrip' = NoRoundTrip
  /\ exported' = NoExport
  /\ UNCHANGED <<algorithmKey, isAnimating, pc, gen, engineVars, normVars, hintVars, decVars, gameVars, iapVars>>

\* Variant in which the Reset button is obeyed at any time.
resetNeverIgnored == FALSE

\* the Reset button returns at once while an animation runs
resetIgnored == isAnimating

\* click on Reset
ClickReset ==
  /\ ~resetIgnored
  /\ applyGridChange(gridWidth, gridHeight)

\* 'change' of the width slider: put back while an animation runs
ChangeWidth ==
  /\ ~isAnimating
  /\ \E width \in 1..MaxSide :
       /\ width # gridWidth
       /\ <<width, gridHeight>> \in GridSizes
       /\ applyGridChange(width, gridHeight)

\* 'change' of the height slider
ChangeHeight ==
  /\ ~isAnimating
  /\ \E height \in 1..MaxSide :
       /\ height # gridHeight
       /\ <<gridWidth, height>> \in GridSizes
       /\ applyGridChange(gridWidth, height)

\* setHintMode: the mode asked for, or "none" when it is the current one
setHintMode(previousMode, mode) == IF previousMode = mode THEN "none" ELSE mode

\* click on Add Hint or on Remove Hint; both are disabled as
\* updateHintButtonsState left them
ClickHintButton ==
  /\ Len(pathCells) > 1 /\ ~isAnimating
  /\ \E mode \in {"add", "remove"} : hintEditMode' = setHintMode(hintEditMode, mode)
  /\ roundTrip' = NoRoundTrip
  /\ exported' = NoExport
  /\ UNCHANGED <<gridWidth, gridHeight, walls, generated, algorithmKey, isAnimating,
                 pc, gen, solve, pathCells, hints, engineVars, normVars, hintVars, decVars, gameVars, iapVars>>

\* pathIndexMap.get(cellKey(cell)) ?? -1; the map holds the cells of pathCells
getPathStepForCell(path, cell) ==
  IF cell # -1 /\ InSeq(path, cell) THEN IndexIn(path, cell) - 1 ELSE -1

\* the hints after a click on the cell (-1: the click fell outside the grid)
canvasClickHints(mode, path, current, cell) ==
  LET step == getPathStepForCell(path, cell)
      maxStep == Len(path) - 1
      existingHints == IF current.set THEN current.steps ELSE << >>
  IN IF mode = "none" \/ Len(path) <= 1 \/ cell = -1 \/ step <= 0 \/ step > maxStep
     THEN current
     ELSE IF mode = "add"
          THEN IF InSeq(existingHints, step) THEN current
               ELSE [set |-> TRUE,
                     steps |-> normalizeHintSteps(Append(existingHints, step), maxStep)]
          ELSE IF ~InSeq(existingHints, step) THEN current
               ELSE [set |-> TRUE,
                     steps |-> normalizeHintSteps(
                                 SelectSeq(existingHints, LAMBDA value : value # step),
                                 maxStep)]

\* click on the canvas
CanvasClick ==
  /\ \E cell \in Cells(gridWidth, gridHeight) \cup {-1} :
       hints' = canvasClickHints(hintEditMode, pathCells, hints, cell)
  /\ roundTrip' = NoRoundTrip
  /\ exported' = NoExport
  /\ UNCHANGED <<gridWidth, gridHeight, walls, generated, algorithmKey, isAnimating,
                 pc, gen, solve, pathCells, hintEditMode,
                 engineVars, normVars, hintVars, decVars, gameVars, iapVars>>

\* the inner loop of the breadth-first search: the neighbours not met before
\* are given their predecessor and queued (cameFrom: -2 for a cell not in the
\* map, -1 for null)
RECURSIVE bfsNeighbors(_, _, _, _, _)
bfsNeighbors(cameFrom, queue, current, nbs, k) ==
  IF k > Len(nbs) THEN [cameFrom |-> cameFrom, queue |-> queue]
  ELSE IF cameFrom[nbs[k]] # -2
       THEN bfsNeighbors(cameFrom, queue, current, nbs, k + 1)
       ELSE bfsNeighbors([cameFrom EXCEPT ![nbs[k]] = current],
                         Append(queue, nbs[k]), current, nbs, k + 1)

\* the outer loop: queue.shift() until the goal cell comes out
RECURSIVE bfsLoop(_, _, _, _, _)
bfsLoop(wl, W, H, cameFrom, queue) ==
  IF queue = << >> THEN cameFrom
  ELSE IF Head(queue) = W * H - 1 THEN cameFrom
       ELSE LET r == bfsNeighbors(cameFrom, Tail(queue), Head(queue),
                                  accessibleNeighbors(wl, Head(queue), W, H), 1)
            IN bfsLoop(wl, W, H, r.cameFrom, r.queue)

\* getSolvedPathCoordinates: [null, coords, fallback]; fallback tells that the
\* coordinates come from the breadth-first search and not from pathCells
getSolvedPathCoordinates(path, wl, g, W, H) ==
  IF Len(path) > 1 THEN [null |-> FALSE, coords |-> path, fallback |-> FALSE]
  ELSE IF ~g[0] \/ ~g[W * H - 1]
       THEN [null |-> TRUE, coords |-> << >>, fallback |-> TRUE]
       ELSE LET cameFrom == bfsLoop(wl, W, H,
                                    [c \in Cells(W, H) |-> IF c = 0 THEN -1 ELSE -2],
                                    <<0>>)
            IN IF cameFrom[W * H - 1] = -2
               THEN [null |-> TRUE, coords |-> << >>, fallback |-> TRUE]
               ELSE [null |-> FALSE, coords |-> pathBack(cameFrom, W * H - 1),
                     fallback |-> TRUE]

\* the record of the save handler; alg, skillTier and difficulty are copied
\* from the selects and read by nothing here
exportRecord(wl, W, H, moves, current, fallback) ==
  [saved |-> TRUE, w |-> W, h |-> H,
   g |-> packGridOpeningsToBase64(wl, W, H),
   p |-> packMovesBase64(moves),
   L |-> Len(moves),
   hints |-> IF current.set THEN normalizeHintSteps(current.steps, Len(moves))
             ELSE normalizeHintSteps(createDefaultHints(Len(moves)), Len(moves)),
   fallback |-> fallback]

\* click on Save: nothing is exported while an animation runs, before a maze
\* is generated, or when no path of two cells is found
ClickSave ==
  /\ \E found \in {IF isAnimating \/ ~generated[StartCell]
                   THEN [null |-> TRUE, coords |-> << >>, fallback |-> FALSE]
                   ELSE getSolvedPathCoordinates(pathCells, walls, generated,
                                                 gridWidth, gridHeight)} :
       \E packed \in {movesFromPathCoords(found.coords, gridWidth)} :
         exported' = IF found.null \/ Len(found.coords) < 2 \/ packed.threw
                     THEN NoExport
                     ELSE exportRecord(walls, gridWidth, gridHeight, packed.moves,
                                       hints, found.fallback)
  /\ roundTrip' = NoRoundTrip
  /\ UNCHANGED <<gridWidth, gridHeight, walls, generated, algorithmKey, isAnimating,
                 pc, gen, solve, pathCells, hints, hintEditMode,
                 engineVars, normVars, hintVars, decVars, gameVars, iapVars>>

NextTool ==
  \/ ClickGenerate
  \/ StepGenerator
  \/ FinishGenerate
  \/ ClickSolve
  \/ StepSolve
  \/ StepHighlight
  \/ RoundTripGrid
  \/ RoundTripMoves
  \/ ClickReset
  \/ ChangeWidth
  \/ ChangeHeight
  \/ ClickHintButton
  \/ CanvasClick
  \/ ClickSave

SpecTool == InitTool /\ [][NextTool]_vars

-----------------------------------------------------------------------------
\* generateMaze alone, with the scheduling the code relies on: the timer of
\* renderStep fires, so a suspended generator goes on and a finished one
\* returns; and Math.random is fair in the walk of Wilson's algorithm: a
\* step that can be taken again and again towards a cell k steps away from
\* the generated cells is taken at some time, whatever k.

\* the steps from cell c to the nearest generated cell, walls not counted
RECURSIVE stepsToGenerated(_, _)
stepsToGenerated(S, k) ==
  IF \E c \in S : generated[c] THEN k
  ELSE stepsToGenerated(S \cup { nb.cell : nb \in UNION { neighbors(c, gridWidth, gridHeight) :
                                                          c \in S } }, k + 1)

\* the walk of Wilson's algorithm steps onto a cell k steps from the maze
WalkStepTo(k) ==
  /\ StepWilsons
  /\ gen.i = 0
  /\ gen'.current # -1
  /\ stepsToGenerated({gen'.current}, 0) = k

NextGenerate ==
  \/ ClickGenerate
  \/ StepGenerator
  \/ FinishGenerate

SpecGenerateFair ==
  /\ InitTool
  /\ [][NextGenerate]_vars
  /\ WF_vars(StepGenerator)
  /\ WF_vars(FinishGenerate)
  /\ \A k \in 0..(MaxSide + MaxSide - 3) : SF_vars(WalkStepTo(k))

-----------------------------------------------------------------------------
\* The hints solveMaze places, for solution lengths no maze of the bounded
\* grids reaches.

MaxHintL == 65    \* largest solution length tried

InitHints ==
  /\ hintIn \in [L : (0 - MaxHintL)..MaxHintL]
  /\ hintOut = HintIdleOut
  /\ EngineIdle
  /\ NormIdle
  /\ DecIdle
  /\ ToolIdle
  /\ GameIdle
  /\ IapIdle

\* createDefaultHints(L), and the list solveMaze keeps:
\* normalizeHintSteps(createDefaultHints(solutionLength), solutionLength)
CallCreateDefaultHints ==
  /\ ~hintOut.done
  /\ hintOut' = [done |-> TRUE,
                 defaults |-> createDefaultHints(hintIn.L),
                 hints |-> normalizeHintSteps(createDefaultHints(hintIn.L), hintIn.L)]
  /\ UNCHANGED <<hintIn, engineVars, normVars, decVars, toolVars, gameVars, iapVars>>

NextHints == CallCreateDefaultHints

SpecHints == InitHints /\ [][NextHints]_vars

---------------------------------------------------------------------------
(* decoder.ts: the game screen (GameScreen)                                *)
(*                                                                         *)
(* Left out, because no branch of the handlers below reads them: stars,    *)
(* canvasSize, strokePoints, activePointer, sliceHighlight, blockedMarker, *)
(* debugMask, iapProcessing, iapMessage, gestureStartRef, sliceStartRef.   *)
(* sliceActive only selects which gesture calls attemptSlice, and with     *)
(* which index: both gestures are actions below.                           *)
(* lastCellRef always names the last cell of playerCellsRef (resetPlayer-  *)
(* State, processCell and attemptSlice set both), so the test on it in     *)
(* handlePointer repeats the test on the current cell.                     *)

MaxHintCount == 1     \* hints counted in one run
MaxSliceCount == 1    \* slices counted in one run

\* DIRECTIONS[i]: N, E, S, W
DIRECTIONS(i) ==
  CASE i = 0 -> [dx |-> 0, dy |-> -1, mask |-> DIRECTION_MASK_N]
    [] i = 1 -> [dx |-> 1, dy |-> 0, mask |-> DIRECTION_MASK_E]
    [] i = 2 -> [dx |-> 0, dy |-> 1, mask |-> DIRECTION_MASK_S]
    [] i = 3 -> [dx |-> -1, dy |-> 0, mask |-> DIRECTION_MASK_W]

\* Date.now() - startTimestamp, as the interval and handleWin may read it
ClockReadings == {0, 1}

\* skillTiers
SkillTiers == {"beginner", "intermediate", "expert"}

\* The bundled puzzles, as the authoring tool exports them (legacy packing):
\* a 3 x 2 maze whose way out is E, S, E, with a dead end to the east of (1, 0)
\* and another to the west of (1, 1); and a record whose g is 'CQ=', three
\* characters long. No record is of the intermediate tier.
PuzzleAsset ==
  << [v |-> 1, alg |-> "huntAndKill", w |-> 3, h |-> 2,
      g |-> bytesToBase64(PackedNibbles(<<3, 14, 8, 2, 11, 12>>)),
      p |-> packMovesBase64(<<1, 2, 1>>), L |-> 3,
      skillTier |-> "beginner", difficulty |-> "easy"],
     [v |-> 2, alg |-> "wilsons", w |-> 1, h |-> 1,
      g |-> <<67, 81, 61>>,
      p |-> << >>, L |-> 0,
      skillTier |-> "expert", difficulty |-> "easy"] >>

\* A second bundle, for the runs that need two playable puzzles: the 3 x 2
\* maze above, and a 2 x 2 maze whose way out is S, E and whose goal cell is
\* also open to the north, onto the dead end (1, 0).
RunsAsset ==
  << PuzzleAsset[1],
     [v |-> 3, alg |-> "wilsons", w |-> 2, h |-> 2,
      g |-> bytesToBase64(PackedNibbles(<<5, 4, 3, 13>>)),
      p |-> packMovesBase64(<<2, 1>>), L |-> 2,
      skillTier |-> "beginner", difficulty |-> "easy"] >>

\* pako is bundled; none of the payloads above is a zlib stream or a JSON text,
\* so inflating and parsing them throws.
GameEnv == [EnvWithoutPako EXCEPT !.pako = TRUE]

\* `${skillTier}-${difficulty}-${alg}-${v}`
MazeId(maze) == <<maze.skillTier, maze.difficulty, maze.alg, maze.v>>

Elements(seq) == {seq[k] : k \in 1..Len(seq)}

\* makeSolutionCells: the cells the reference moves walk through, from (0, 0)
RECURSIVE makeSolutionCells(_)
makeSolutionCells(moves) ==
  IF Len(moves) = 0 THEN <<(<<0, 0>>)>>
  ELSE LET before == makeSolutionCells(Front(moves))
           cursor == Last(before)
           direction == IF Last(moves) \in 0..3 THEN DIRECTIONS(Last(moves))
                        ELSE [dx |-> 0, dy |-> 0, mask |-> 0]
       IN Append(before, <<cursor[1] + direction.dx, cursor[2] + direction.dy>>)

\* evaluateMoves, as the closure over solution computes it
evaluateMoves(moves, solution) ==
  IF Len(solution) = 0 THEN [divergenceIndex |-> -1, correctCount |-> 0]
  ELSE LET divergenceIndex == firstDivergence(moves, solution)
       IN [divergenceIndex |-> divergenceIndex,
           correctCount |-> IF divergenceIndex = -1
                            THEN Min(Len(moves), Len(solution))
                            ELSE divergenceIndex]

Out(op) == [NoGameOut EXCEPT !.op = op]

InitGame ==
  /\ EngineIdle
  /\ NormIdle
  /\ HintIdle
  /\ DecIdle
  /\ ToolIdle
  /\ GameIdle
  /\ IapIdle

\* the mount effect: readPuzzleAsset resolves and the records are stored
LoadPuzzles ==
  /\ ~gameOut.threw
  /\ puzzles = << >>
  /\ puzzles' = PuzzleAsset
  /\ gameOut' = NoGameOut
  /\ UNCHANGED <<playedSet, currentMaze, gameOpenings, gameSolutionMoves, gamePlayerMoves,
                 playerCells, gameDivergence, gameProgress, hintCells, availableHints,
                 availableSlices, hintCount, sliceCount, startTimestamp, elapsedMs,
                 completed, isPro, hintRequest, sliceRequest,
                 engineVars, normVars, hintVars, decVars, toolVars, iapVars>>

\* A plausible slip: the counts of hints and slices used are kept.
ResetPlayerStateKeepsCounts ==
  /\ gamePlayerMoves' = << >>
  /\ playerCells' = <<(<<0, 0>>)>>
  /\ gameDivergence' = -1
  /\ gameProgress' = 0
  /\ hintCells' = << >>
  /\ UNCHANGED <<hintCount, sliceCount>>
  /\ completed' = FALSE
  /\ elapsedMs' = 0

\* resetPlayerState: what it assigns
ResetPlayerState ==
  /\ gamePlayerMoves' = << >>
  /\ playerCells' = <<(<<0, 0>>)>>
  /\ gameDivergence' = -1
  /\ gameProgress' = 0
  /\ hintCells' = << >>
  /\ hintCount' = 0
  /\ sliceCount' = 0
  /\ completed' = FALSE
  /\ elapsedMs' = 0

\* decodeOpenings(selection.g, selection.w, selection.h) and
\* decodeMoves(selection.p, selection.L), tabulated for the bundled records
decodedAsset ==
  [selection \in Elements(PuzzleAsset) \cup Elements(RunsAsset) |->
     [openings |-> decodeOpenings(selection.g, selection.w, selection.h, GameEnv),
      moves |-> decodeMoves(selection.p, selection.L, GameEnv)]]

\* the pool startGame picks from
pickPool(skill, difficulty) ==
  LET all == Elements(puzzles)
      candidates == {item \in all : item.skillTier = skill /\ item.difficulty = difficulty}
      pool == IF candidates # {} THEN candidates ELSE all
      unplayed == {item \in pool : MazeId(item) \notin playedSet}
  IN IF unplayed # {} THEN unplayed ELSE pool

\* startGame: an exception of either decoder leaves through the caller (the
\* mount effect or a press handler) before any state is set; nothing in the
\* screen catches it, and no handler runs after it
startGame(skill, difficulty) ==
  /\ ~gameOut.threw
  /\ Len(puzzles) > 0
  /\ \E selection \in pickPool(skill, difficulty) :
       \E newOpenings \in {decodedAsset[selection].openings} :
       \E newMoves \in {decodedAsset[selection].moves} :
         IF newOpenings.threw \/ newMoves.threw
         THEN /\ gameOut' = [Out("startGame") EXCEPT !.threw = TRUE]
              /\ UNCHANGED <<currentMaze, gameOpenings, gameSolutionMoves, gamePlayerMoves,
                             playerCells, gameDivergence, gameProgress, hintCells,
                             hintCount, sliceCount, startTimestamp, elapsedMs,
                             completed>>
         ELSE /\ currentMaze' = selection
              /\ gameOpenings' = newOpenings.openings
              /\ gameSolutionMoves' = newMoves.moves
              /\ ResetPlayerState
              /\ startTimestamp' = TRUE
              /\ gameOut' = Out("startGame")
  /\ UNCHANGED <<puzzles, playedSet, availableHints, availableSlices, isPro,
                 hintRequest, sliceRequest, engineVars, normVars, hintVars, decVars, toolVars, iapVars>>

StartGame == \E skill \in SkillTiers : startGame(skill, "easy")

\* goBackToDifficulty / goBackToMain
GoBack ==
  /\ ~gameOut.threw
  /\ currentMaze # NoMaze
  /\ ResetPlayerState
  /\ currentMaze' = NoMaze
  /\ gameOut' = NoGameOut
  /\ UNCHANGED <<puzzles, playedSet, gameOpenings, gameSolutionMoves, availableHints,
                 availableSlices, startTimestamp, isPro, hintRequest, sliceRequest,
                 engineVars, normVars, hintVars, decVars, toolVars, iapVars>>

\* openings[cell.y * w + cell.x] ?? 0
maskAt(ops, w, cell) ==
  LET idx == cell[2] * w + cell[1]
  IN IF idx >= 0 /\ idx < Len(ops) THEN ops[idx + 1] ELSE 0

\* A plausible slip: the bit of the opposite direction is tested.
closedPassageOppositeBit(ops, w, cell, directionIndex) ==
  ~HasBit(maskAt(ops, w, cell), DIRECTIONS((directionIndex + 2) % 4).mask)

\* (mask & DIRECTIONS[directionIndex].mask) === 0, for the mask of cell
closedPassage(ops, w, cell, directionIndex) ==
  ~HasBit(maskAt(ops, w, cell), DIRECTIONS(directionIndex).mask)

\* DIRECTIONS.findIndex((dir) => dir.dx === dx && dir.dy === dy)
findDirectionIndex(dx, dy) ==
  IF \E i \in 0..3 : DIRECTIONS(i).dx = dx /\ DIRECTIONS(i).dy = dy
  THEN CHOOSE i \in 0..3 : DIRECTIONS(i).dx = dx /\ DIRECTIONS(i).dy = dy
  ELSE -1

Abs(n) == IF n < 0 THEN -n ELSE n

\* The run a gesture works on: the two refs, the last result of evaluateMoves
\* and the number of handleWin calls made so far.
RunOf(cells, moves, div, prog) ==
  [cells |-> cells, moves |-> moves, divergence |-> div, progress |-> prog, wins |-> 0]

\* processCell(target), for a maze and the openings and solution it closes over
processCell(run, target, maze, ops, solution) ==
  LET cells == run.cells
      last == cells[Len(cells)]
      dx == target[1] - last[1]
      dy == target[2] - last[2]
      directionIndex == findDirectionIndex(dx, dy)
      nextMoves == Append(run.moves, directionIndex)
      evaluated == evaluateMoves(nextMoves, solution)
      reachedGoal == target[1] = maze.w - 1 /\ target[2] = maze.h - 1
      requiredMoves == IF Len(solution) > 0 THEN Len(solution) ELSE maze.L
      won == \/ reachedGoal
             \/ evaluated.divergenceIndex = -1 /\ evaluated.correctCount >= requiredMoves
  IN IF \/ last = target
        \/ Len(cells) >= 2 /\ cells[Len(cells) - 1] = target
        \/ Abs(dx) + Abs(dy) # 1
        \/ directionIndex = -1
     THEN run
     ELSE IF closedPassage(ops, maze.w, last, directionIndex)
     THEN run
     ELSE [cells |-> Append(cells, target), moves |-> nextMoves,
           divergence |-> evaluated.divergenceIndex,
           progress |-> evaluated.correctCount,
           wins |-> run.wins + (IF won THEN 1 ELSE 0)]

\* the direction handlePointer steps in from activeCell towards cell, -1 for null
stepDirection(activeCell, cell) ==
  LET dx == cell[1] - activeCell[1]
      dy == cell[2] - activeCell[2]
  IN IF Abs(dx) >= Abs(dy) /\ dx # 0 THEN (IF dx > 0 THEN 1 ELSE 3)
     ELSE IF dy # 0 THEN (IF dy > 0 THEN 2 ELSE 0)
     ELSE -1

\* the loop of handlePointer, from its iteration step on
RECURSIVE pointerLoop(_, _, _, _, _, _)
pointerLoop(run, cell, step, maze, ops, solution) ==
  LET activeCell == run.cells[Len(run.cells)]
      directionIndex == stepDirection(activeCell, cell)
      nextCell == <<activeCell[1] + DIRECTIONS(directionIndex).dx,
                    activeCell[2] + DIRECTIONS(directionIndex).dy>>
      after == processCell(run, nextCell, maze, ops, solution)
  IN IF ~(step < maze.w + maze.h) THEN run
     ELSE IF cell = activeCell \/ directionIndex = -1 THEN run
     ELSE IF closedPassage(ops, maze.w, activeCell, directionIndex) THEN run
     ELSE IF Len(after.moves) = Len(run.moves) THEN run
     ELSE pointerLoop(after, cell, step + 1, maze, ops, solution)

\* handlePointer outside slice mode, for the cell under the pointer
handlePointer(run, cell, maze, ops, solution) ==
  LET cells == run.cells
  IN IF cell = cells[Len(cells)] THEN run
     ELSE IF Len(cells) >= 2 /\ cells[Len(cells) - 1] = cell THEN run
     ELSE pointerLoop(run, cell, 0, maze, ops, solution)

\* the direction of the first step a pointer over cell asks for, -1 when
\* handlePointer returns before its loop
firstStep(cells, cell) ==
  IF cell = cells[Len(cells)] \/ (Len(cells) >= 2 /\ cells[Len(cells) - 1] = cell)
  THEN -1
  ELSE stepDirection(cells[Len(cells)], cell)

\* A plausible slip: the interstitial does not look at isPro.
interstitialsShownToAll(pro, wins) == wins

\* handleWin: if (!isPro) await ads.showInterstitial(), once per call
interstitialsShown(pro, wins) == IF pro THEN 0 ELSE wins

GridPoints(maze) == (0..(maze.w - 1)) \X (0..(maze.h - 1))

\* onGestureEvent / onHandlerStateChange(BEGAN): the pointer is over cell.
\* gameOut keeps the direction of the first step the gesture asked for. Each
\* handleWin call made
\* on the way closes over completed = FALSE: it sets completed and the finish
\* time, shows the interstitial unless isPro, and marks the maze played.
HandlePointer ==
  /\ ~gameOut.threw
  /\ currentMaze # NoMaze
  /\ ~completed
  /\ \E cell \in GridPoints(currentMaze) :
     \E run \in {handlePointer(RunOf(playerCells, gamePlayerMoves, gameDivergence,
                                     gameProgress),
                               cell, currentMaze, gameOpenings, gameSolutionMoves)} :
       /\ playerCells' = run.cells
       /\ gamePlayerMoves' = run.moves
       /\ gameDivergence' = run.divergence
       /\ gameProgress' = run.progress
       /\ IF run.wins > 0
          THEN /\ completed' = TRUE
               /\ elapsedMs' \in ClockReadings
               /\ playedSet' = playedSet \cup {MazeId(currentMaze)}
          ELSE UNCHANGED <<completed, elapsedMs, playedSet>>
       /\ gameOut' =
            IF firstStep(playerCells, cell) = -1 THEN NoGameOut
            ELSE [Out("handlePointer") EXCEPT
                    !.directionIndex = firstStep(playerCells, cell),
                    !.returned = (Len(run.moves) # Len(gamePlayerMoves)),
                    !.interstitials = interstitialsShown(isPro, run.wins)]
  /\ UNCHANGED <<puzzles, currentMaze, gameOpenings, gameSolutionMoves, hintCells,
                 availableHints, availableSlices, hintCount, sliceCount, startTimestamp,
                 isPro, hintRequest, sliceRequest,
                 engineVars, normVars, hintVars, decVars, toolVars, iapVars>>

\* A plausible slip: the unit is taken twice.
consumeTwice(value) == IF value = POSITIVE_INFINITY THEN value ELSE Max(value - 2, 0)

\* (value) => value === Number.POSITIVE_INFINITY ? value : Math.max(value - 1, 0)
consume(value) == IF value = POSITIVE_INFINITY THEN value ELSE Max(value - 1, 0)

\* A plausible slip: an anchor at or past the end of the path is not refused.
sliceCutPastEnd(segmentIndex, moves, cells, div, prog) ==
  LET anchor == IF segmentIndex = -1 THEN (IF div = -1 THEN prog ELSE div)
                ELSE segmentIndex
  IN [refused |-> anchor < 0,
      trimmedMoves |-> JsSlice(moves, 0, anchor),
      trimmedCells |-> JsSlice(cells, 0, anchor + 1)]

\* A plausible slip: without an explicit index the path is cut back to the
\* start.
sliceCutToStart(segmentIndex, moves, cells, div, prog) ==
  LET anchor == IF segmentIndex = -1 THEN 0 ELSE segmentIndex
      trimmedMoves == JsSlice(moves, 0, anchor)
      trimmedCells == JsSlice(cells, 0, anchor + 1)
  IN [refused |-> \/ anchor < 0
                  \/ anchor >= Len(moves)
                  \/ Len(trimmedCells) = Len(cells),
      trimmedMoves |-> trimmedMoves, trimmedCells |-> trimmedCells]

\* attemptSlice up to the resource check: [refused, trimmedMoves, trimmedCells].
\* segmentIndex is -1 where the source passes undefined; an explicit index is
\* never negative (performSlice passes i + 1, the fallback Math.max(0, ...)).
sliceCut(segmentIndex, moves, cells, div, prog) ==
  LET anchor == IF segmentIndex = -1 THEN (IF div = -1 THEN prog ELSE div)
                ELSE segmentIndex
      trimmedMoves == JsSlice(moves, 0, anchor)
      trimmedCells == JsSlice(cells, 0, anchor + 1)
  IN [refused |-> \/ anchor < 0
                  \/ anchor >= Len(moves)
                  \/ Len(trimmedCells) = Len(cells),
      trimmedMoves |-> trimmedMoves, trimmedCells |-> trimmedCells]

\* the tail of attemptSlice: the trimmed path is installed with the result of
\* evaluateMoves(trimmedMoves), computed against the solution the call closed
\* over
ApplySlice(trimmedMoves, trimmedCells, evaluated) ==
  /\ sliceCount < MaxSliceCount
  /\ gamePlayerMoves' = trimmedMoves
  /\ playerCells' = trimmedCells
  /\ sliceCount' = sliceCount + 1
  /\ gameDivergence' = evaluated.divergenceIndex
  /\ gameProgress' = evaluated.correctCount

\* attemptSlice(segmentIndex). A call that has to wait for the rewarded ad is
\* suspended in sliceRequest with its trimmed path and with what evaluateMoves
\* will return for it (a function of the solution the call closed over); one
\* call waits at a time.
attemptSlice(segmentIndex) ==
  /\ currentMaze # NoMaze
  /\ \E cut \in {sliceCut(segmentIndex, gamePlayerMoves, playerCells, gameDivergence,
                          gameProgress)} :
       IF cut.refused
       THEN /\ gameOut' = [Out("sliceRefused") EXCEPT !.segmentIndex = segmentIndex]
            /\ UNCHANGED <<gamePlayerMoves, playerCells, sliceCount, gameDivergence,
                           gameProgress, availableSlices, sliceRequest>>
       ELSE IF ~isPro /\ availableSlices <= 0
       THEN /\ ~sliceRequest.pending /\ ~hintRequest.pending
            /\ sliceRequest' =
                 [pending |-> TRUE, segmentIndex |-> segmentIndex,
                  trimmedMoves |-> cut.trimmedMoves,
                  trimmedCells |-> cut.trimmedCells,
                  divergenceIndex |->
                    evaluateMoves(cut.trimmedMoves, gameSolutionMoves).divergenceIndex,
                  correctCount |->
                    evaluateMoves(cut.trimmedMoves, gameSolutionMoves).correctCount]
            /\ gameOut' = [Out("sliceWaits") EXCEPT !.segmentIndex = segmentIndex]
            /\ UNCHANGED <<gamePlayerMoves, playerCells, sliceCount, gameDivergence,
                           gameProgress, availableSlices>>
       ELSE /\ availableSlices' = IF isPro THEN availableSlices
                                  ELSE consume(availableSlices)
            /\ ApplySlice(cut.trimmedMoves, cut.trimmedCells,
                          evaluateMoves(cut.trimmedMoves, gameSolutionMoves))
            /\ gameOut' = [Out("attemptSlice") EXCEPT !.returned = TRUE,
                                                      !.segmentIndex = segmentIndex]
            /\ UNCHANGED sliceRequest

\* onHandlerStateChange(END): a short tap calls attemptSlice()
TapSlice ==
  /\ ~gameOut.threw
  /\ ~completed
  /\ attemptSlice(-1)
  /\ UNCHANGED <<puzzles, playedSet, currentMaze, gameOpenings, gameSolutionMoves,
                 hintCells, availableHints, hintCount, startTimestamp, elapsedMs,
                 completed, isPro, hintRequest,
                 engineVars, normVars, hintVars, decVars, toolVars, iapVars>>

\* The Slice button (enabled once the player has moved) and the gesture that
\* follows it: performSlice finds a cut index among the segments of the path
\* (or the fallback anchor is used) and attemptSlice is called with it
CutSlice ==
  /\ ~gameOut.threw
  /\ ~completed
  /\ Len(gamePlayerMoves) > 0
  /\ \E cutIndex \in 0..Len(gamePlayerMoves) : attemptSlice(cutIndex)
  /\ UNCHANGED <<puzzles, playedSet, currentMaze, gameOpenings, gameSolutionMoves,
                 hintCells, availableHints, hintCount, startTimestamp, elapsedMs,
                 completed, isPro, hintRequest,
                 engineVars, normVars, hintVars, decVars, toolVars, iapVars>>

\* ads.showRewarded('slice') resolves for the suspended attemptSlice, which
\* closed over isPro = FALSE
SliceAdResolves ==
  /\ ~gameOut.threw
  /\ sliceRequest.pending
  /\ \E rewarded \in BOOLEAN :
       IF ~rewarded
       THEN /\ gameOut' = [Out("sliceAd") EXCEPT
                              !.segmentIndex = sliceRequest.segmentIndex]
            /\ UNCHANGED <<gamePlayerMoves, playerCells, sliceCount, gameDivergence,
                           gameProgress, availableSlices>>
       ELSE /\ availableSlices' = consume(BASE_RESOURCE_BUNDLE)
            /\ ApplySlice(sliceRequest.trimmedMoves, sliceRequest.trimmedCells,
                          sliceRequest)
            /\ gameOut' = [Out("sliceAd") EXCEPT
                              !.returned = TRUE,
                              !.segmentIndex = sliceRequest.segmentIndex]
  /\ sliceRequest' = NoSliceRequest
  /\ UNCHANGED <<puzzles, playedSet, currentMaze, gameOpenings, gameSolutionMoves,
                 hintCells, availableHints, hintCount, startTimestamp, elapsedMs,
                 completed, isPro, hintRequest,
                 engineVars, normVars, hintVars, decVars, toolVars, iapVars>>

\* the cells requestHint highlights, << >> when hintSegment returns nothing
hintHighlight(solution, prog, div, L) ==
  LET segment == hintSegment(solution, prog, div, L)
      solutionCells == makeSolutionCells(solution)
      startIndex == Max(prog, IF div >= 0 THEN div ELSE prog)
      from == Min(startIndex, Len(solutionCells) - 1)
  IN IF Len(segment) = 0 THEN << >>
     ELSE SubSeq(makeSolutionCells(SubSeq(solution, 1, from) \o segment),
                 from + 2, from + 1 + Len(segment))

\* the tail of requestHint, for the segment and the highlight computed from
\* what the call closed over
ApplyHint(segmentLength, highlight) ==
  /\ hintCount < MaxHintCount
  /\ hintCount' = hintCount + 1
  /\ hintCells' = IF segmentLength = 0 THEN hintCells ELSE highlight

\* requestHint; a call that has to wait for the rewarded ad is suspended in
\* hintRequest with the segment length and the highlight that follow from the
\* solution, progress, divergence and maze it closed over; one call waits at a
\* time.
RequestHint ==
  /\ ~gameOut.threw
  /\ currentMaze # NoMaze
  /\ Len(gameSolutionMoves) > 0
  /\ IF ~isPro /\ availableHints <= 0
     THEN /\ ~hintRequest.pending /\ ~sliceRequest.pending
          /\ hintRequest' =
               [pending |-> TRUE,
                segmentLength |-> Len(hintSegment(gameSolutionMoves, gameProgress,
                                                  gameDivergence, currentMaze.L)),
                highlight |-> hintHighlight(gameSolutionMoves, gameProgress,
                                            gameDivergence, currentMaze.L)]
          /\ gameOut' = Out("hintWaits")
          /\ UNCHANGED <<availableHints, hintCount, hintCells>>
     ELSE /\ availableHints' = IF isPro THEN availableHints ELSE consume(availableHints)
          /\ ApplyHint(Len(hintSegment(gameSolutionMoves, gameProgress,
                                       gameDivergence, currentMaze.L)),
                       hintHighlight(gameSolutionMoves, gameProgress,
                                     gameDivergence, currentMaze.L))
          /\ gameOut' = [Out("requestHint") EXCEPT !.returned = TRUE]
          /\ UNCHANGED hintRequest
  /\ UNCHANGED <<puzzles, playedSet, currentMaze, gameOpenings, gameSolutionMoves,
                 gamePlayerMoves, playerCells, gameDivergence, gameProgress,
                 availableSlices, sliceCount, startTimestamp, elapsedMs, completed,
                 isPro, sliceRequest,
                 engineVars, normVars, hintVars, decVars, toolVars, iapVars>>

\* ads.showRewarded('hint') resolves for the suspended requestHint
HintAdResolves ==
  /\ ~gameOut.threw
  /\ hintRequest.pending
  /\ \E rewarded \in BOOLEAN :
       IF ~rewarded
       THEN /\ gameOut' = Out("hintAd")
            /\ UNCHANGED <<availableHints, hintCount, hintCells>>
       ELSE /\ availableHints' = consume(BASE_RESOURCE_BUNDLE)
            /\ ApplyHint(hintRequest.segmentLength, hintRequest.highlight)
            /\ gameOut' = [Out("hintAd") EXCEPT !.returned = TRUE]
  /\ hintRequest' = NoHintRequest
  /\ UNCHANGED <<puzzles, playedSet, currentMaze, gameOpenings, gameSolutionMoves,
                 gamePlayerMoves, playerCells, gameDivergence, gameProgress,
                 availableSlices, sliceCount, startTimestamp, elapsedMs, completed,
                 isPro, sliceRequest,
                 engineVars, normVars, hintVars, decVars, toolVars, iapVars>>

\* the timer requestHint starts
HintTimer ==
  /\ ~gameOut.threw
  /\ hintCells # << >>
  /\ hintCells' = << >>
  /\ gameOut' = NoGameOut
  /\ UNCHANGED <<puzzles, playedSet, currentMaze, gameOpenings, gameSolutionMoves,
                 gamePlayerMoves, playerCells, gameDivergence, gameProgress,
                 availableHints, availableSlices, hintCount, sliceCount,
                 startTimestamp, elapsedMs, completed, isPro,
                 hintRequest, sliceRequest, engineVars, normVars, hintVars, decVars, toolVars, iapVars>>

\* the 'Watch to refill' buttons, when the ad rewards
WatchRefill ==
  /\ ~gameOut.threw
  /\ currentMaze # NoMaze
  /\ \/ availableSlices' = BASE_RESOURCE_BUNDLE /\ UNCHANGED availableHints
     \/ availableHints' = BASE_RESOURCE_BUNDLE /\ UNCHANGED availableSlices
  /\ gameOut' = NoGameOut
  /\ UNCHANGED <<puzzles, playedSet, currentMaze, gameOpenings, gameSolutionMoves,
                 gamePlayerMoves, playerCells, gameDivergence, gameProgress, hintCells,
                 hintCount, sliceCount, startTimestamp, elapsedMs, completed,
                 isPro, hintRequest, sliceRequest,
                 engineVars, normVars, hintVars, decVars, toolVars, iapVars>>

\* the effect on [isPro], for the value refill it finds
proRefill(pro, value) ==
  IF pro THEN POSITIVE_INFINITY
  ELSE IF value = POSITIVE_INFINITY THEN BASE_RESOURCE_BUNDLE
       ELSE Min(value, BASE_RESOURCE_BUNDLE)

\* useProStatus returns another value (a purchase, a restore, the stored flag
\* read at start, clearProStatus) and the effect on [isPro] runs
ProStatusChanges ==
  /\ ~gameOut.threw
  /\ isPro' = ~isPro
  /\ availableHints' = proRefill(isPro', availableHints)
  /\ availableSlices' = proRefill(isPro', availableSlices)
  /\ gameOut' = NoGameOut
  /\ UNCHANGED <<puzzles, playedSet, currentMaze, gameOpenings, gameSolutionMoves,
                 gamePlayerMoves, playerCells, gameDivergence, gameProgress, hintCells,
                 hintCount, sliceCount, startTimestamp, elapsedMs, completed,
                 hintRequest, sliceRequest,
                 engineVars, normVars, hintVars, decVars, toolVars, iapVars>>

\* useInterval: every 500 ms while a game is started and not completed
Tick ==
  /\ ~gameOut.threw
  /\ startTimestamp
  /\ ~completed
  /\ \E t \in ClockReadings : t # elapsedMs /\ elapsedMs' = t
  /\ gameOut' = NoGameOut
  /\ UNCHANGED <<puzzles, playedSet, currentMaze, gameOpenings, gameSolutionMoves,
                 gamePlayerMoves, playerCells, gameDivergence, gameProgress, hintCells,
                 availableHints, availableSlices, hintCount, sliceCount,
                 startTimestamp, completed, isPro, hintRequest,
                 sliceRequest, engineVars, normVars, hintVars, decVars, toolVars, iapVars>>

NextGame ==
  \/ LoadPuzzles
  \/ StartGame
  \/ GoBack
  \/ HandlePointer
  \/ TapSlice
  \/ CutSlice
  \/ SliceAdResolves
  \/ RequestHint
  \/ HintAdResolves
  \/ HintTimer
  \/ WatchRefill
  \/ ProStatusChanges
  \/ Tick

SpecGame == InitGame /\ [][NextGame]_vars

\* the mount effect, for the bundle of two playable puzzles
LoadRunPuzzles ==
  /\ ~gameOut.threw
  /\ puzzles = << >>
  /\ puzzles' = RunsAsset
  /\ gameOut' = NoGameOut
  /\ UNCHANGED <<playedSet, currentMaze, gameOpenings, gameSolutionMoves, gamePlayerMoves,
                 playerCells, gameDivergence, gameProgress, hintCells, availableHints,
                 availableSlices, hintCount, sliceCount, startTimestamp, elapsedMs,
                 completed, isPro, hintRequest, sliceRequest,
                 engineVars, normVars, hintVars, decVars, toolVars, iapVars>>

\* The runs of a player who is not Pro and asks for no hint: puzzle starts,
\* pointer moves, slices and the rewarded ads the slices wait for.
NextRuns ==
  \/ LoadRunPuzzles
  \/ StartGame
  \/ GoBack
  \/ HandlePointer
  \/ TapSlice
  \/ CutSlice
  \/ SliceAdResolves

SpecRuns == InitGame /\ [][NextRuns]_vars

---------------------------------------------------------------------------
(* iap.ts: the Pro unlock                                                  *)
(*                                                                         *)
(* AsyncStorage and react-native-iap are not code of the repository: each  *)
(* of their promises resolves or rejects, at any later step. One call of   *)
(* buyProUnlock, restorePurchases or clearProStatus is in flight at a      *)
(* time; each useProStatus instance has its own getProStatus promise.      *)

IapFunctions == {"buyProUnlock", "restorePurchases", "clearProStatus"}

Hooks == 1..MaxSubscribers

InitIap ==
  /\ connectionReady = FALSE /\ mockMode = FALSE /\ cachedPro = FALSE
  /\ stored \in {"none", "0", "1"}
  /\ iapCall = NoIapCall
  /\ proHooks = [h \in Hooks |-> NoHook]
  /\ EngineIdle
  /\ NormIdle
  /\ HintIdle
  /\ DecIdle
  /\ ToolIdle
  /\ GameIdle

\* notify: subscribers.forEach((listener) => listener(value)); a listener
\* sets the state of its instance while that is mounted
notify(hooks, value) ==
  [h \in Hooks |-> IF hooks[h].mounted THEN [hooks[h] EXCEPT !.value = value]
                   ELSE hooks[h]]

\* persist(value) up to its await: cachedPro is assigned and setItem is
\* called; inTry tells whether the caller awaits persist inside its try
persistStarts(call, value, inTry) ==
  /\ cachedPro' = value
  /\ iapCall' = [call EXCEPT !.pc = "setItem", !.value = value, !.inTry = inTry]

\* what buyProUnlock and restorePurchases do once 'await initIAP()' is over,
\* for the value mockMode has then
afterInit(call, mock) ==
  IF mock
  THEN IF call.fn = "buyProUnlock"
       THEN persistStarts(call, TRUE, FALSE)
       ELSE /\ iapCall' = [call EXCEPT !.pc = "done",
                             !.result = IF cachedPro THEN "true" ELSE "false"]
            /\ UNCHANGED cachedPro
  ELSE /\ iapCall' = [call EXCEPT !.pc = "purchase"]
       /\ UNCHANGED cachedPro

\* buyProUnlock(), restorePurchases() or clearProStatus() is called
CallStart ==
  /\ iapCall.pc \in {"idle", "done"}
  /\ \E fn \in IapFunctions :
     \E call \in {[NoIapCall EXCEPT !.fn = fn, !.before = cachedPro]} :
       IF fn = "clearProStatus" THEN persistStarts(call, FALSE, FALSE)
       ELSE IF connectionReady \/ mockMode THEN afterInit(call, mockMode)
       ELSE /\ iapCall' = [call EXCEPT !.pc = "init"]
            /\ UNCHANGED cachedPro
  /\ UNCHANGED <<connectionReady, mockMode, stored, proHooks,
                 engineVars, normVars, hintVars, decVars, toolVars, gameVars>>

\* initIAP: RNIap.initConnection and the flush resolve, or one rejects
InitResolves ==
  /\ iapCall.pc = "init"
  /\ \E connected \in BOOLEAN :
       /\ connectionReady' = connected
       /\ mockMode' = ~connected
       /\ afterInit(iapCall, ~connected)
  /\ UNCHANGED <<stored, proHooks,
                 engineVars, normVars, hintVars, decVars, toolVars, gameVars>>

\* RNIap.requestPurchase (with finishTransaction, whose failure is caught) or
\* RNIap.getAvailablePurchases resolves: it rejects, brings nothing (no sku,
\* no purchase, product not owned), or brings the product
PurchaseResolves ==
  /\ iapCall.pc = "purchase"
  /\ \E outcome \in {"rejects", "nothing", "product"} :
       IF outcome = "product" THEN persistStarts(iapCall, TRUE, TRUE)
       ELSE /\ iapCall' = [iapCall EXCEPT !.pc = "done", !.result = "false"]
            /\ UNCHANGED cachedPro
  /\ UNCHANGED <<connectionReady, mockMode, stored, proHooks,
                 engineVars, normVars, hintVars, decVars, toolVars, gameVars>>

\* AsyncStorage.setItem resolves and persist goes on to notify, or it rejects:
\* the rejection is caught where persist is awaited inside a try, and leaves
\* the call otherwise
SetItemResolves ==
  /\ iapCall.pc = "setItem"
  /\ \E written \in BOOLEAN :
       IF written
       THEN /\ stored' = IF iapCall.value THEN "1" ELSE "0"
            /\ cachedPro' = iapCall.value
            /\ proHooks' = notify(proHooks, iapCall.value)
            /\ iapCall' = [iapCall EXCEPT !.pc = "done",
                             !.result = IF iapCall.fn = "clearProStatus" THEN "returned"
                                        ELSE "true"]
       ELSE /\ iapCall' = [iapCall EXCEPT !.pc = "done",
                             !.result = IF iapCall.inTry THEN "false" ELSE "threw"]
            /\ UNCHANGED <<stored, cachedPro, proHooks>>
  /\ UNCHANGED <<connectionReady, mockMode,
                 engineVars, normVars, hintVars, decVars, toolVars, gameVars>>

\* useProStatus mounts: useState(cachedPro), then the effect calls
\* getProStatus (which returns cachedPro when it is set, readPersisted()
\* otherwise) and subscribes the handler
Mount(h) ==
  /\ ~proHooks[h].mounted
  /\ proHooks[h].read \in {"off", "done"}
  /\ proHooks' = [proHooks EXCEPT ![h] =
                    [mounted |-> TRUE, value |-> cachedPro,
                     read |-> IF cachedPro THEN "then" ELSE "getItem",
                     got |-> "none", status |-> cachedPro]]
  /\ UNCHANGED <<connectionReady, mockMode, cachedPro, stored, iapCall,
                 engineVars, normVars, hintVars, decVars, toolVars, gameVars>>

\* the cleanup of the effect
Unmount(h) ==
  /\ proHooks[h].mounted
  /\ proHooks' = [proHooks EXCEPT ![h].mounted = FALSE]
  /\ UNCHANGED <<connectionReady, mockMode, cachedPro, stored, iapCall,
                 engineVars, normVars, hintVars, decVars, toolVars, gameVars>>

\* AsyncStorage.getItem reads the item, or fails: readPersisted then rejects
\* and nothing more happens
GetItemReads(h) ==
  /\ proHooks[h].read = "getItem"
  /\ \E ok \in BOOLEAN :
       proHooks' = [proHooks EXCEPT ![h].read = IF ok THEN "resume" ELSE "done",
                                    ![h].got = IF ok THEN stored ELSE "none"]
  /\ UNCHANGED <<connectionReady, mockMode, cachedPro, stored, iapCall,
                 engineVars, normVars, hintVars, decVars, toolVars, gameVars>>

\* readPersisted after its await: cachedPro = stored === '1', for the item
\* getItem read; getProStatus resolves with it
ReadResumes(h) ==
  /\ proHooks[h].read = "resume"
  /\ cachedPro' = (proHooks[h].got = "1")
  /\ proHooks' = [proHooks EXCEPT ![h].read = "then", ![h].status = cachedPro']
  /\ UNCHANGED <<connectionReady, mockMode, stored, iapCall,
                 engineVars, normVars, hintVars, decVars, toolVars, gameVars>>

\* getProStatus().then((status) => { if (mounted) setValue(status) })
ReadThen(h) ==
  /\ proHooks[h].read = "then"
  /\ proHooks' = [proHooks EXCEPT
                    ![h].read = "done",
                    ![h].value = IF proHooks[h].mounted THEN proHooks[h].status
                                 ELSE proHooks[h].value]
  /\ UNCHANGED <<connectionReady, mockMode, cachedPro, stored, iapCall,
                 engineVars, normVars, hintVars, decVars, toolVars, gameVars>>

NextIap ==
  \/ CallStart
  \/ InitResolves
  \/ PurchaseResolves
  \/ SetItemResolves
  \/ \E h \in Hooks : Mount(h)
  \/ \E h \in Hooks : Unmount(h)
  \/ \E h \in Hooks : GetItemReads(h)
  \/ \E h \in Hooks : ReadResumes(h)
  \/ \E h \in Hooks : ReadThen(h)

SpecIap == InitIap /\ [][NextIap]_vars

---------------------------------------------------------------------------
(* Claims about the authoring tool *)

\* the side neighbours c and n are joined by a carved passage
Joined(c, n) ==
  \E d \in {"N", "E", "S", "W"} :
    /\ getCell(CellX(c, gridWidth) + Dx(d), CellY(c, gridWidth) + Dy(d),
               gridWidth, gridHeight) = n
    /\ ~walls[c][d]

Passages ==
  { e \in Cells(gridWidth, gridHeight) \X Cells(gridWidth, gridHeight) :
      e[1] < e[2] /\ (Joined(e[1], e[2]) \/ Joined(e[2], e[1])) }

RECURSIVE ReachableFrom(_)
ReachableFrom(S) ==
  LET more == { n \in Cells(gridWidth, gridHeight) : \E c \in S : Joined(c, n) }
  IN IF more \subseteq S THEN S ELSE ReachableFrom(S \cup more)

GenerationComplete == pc = "idle" /\ generated[StartCell] /\ generated[GoalCell]

\* C5: when any of the five generators completes, on every grid size, the
\* carved passages form a spanning tree: W*H-1 of them, each open from both
\* sides, and every cell reachable from every other (so there is no cycle).
C5_SpanningTree ==
  GenerationComplete =>
    /\ Cardinality(Passages) = gridWidth * gridHeight - 1
    /\ \A e \in Passages : Joined(e[1], e[2]) /\ Joined(e[2], e[1])
    /\ \A c \in Cells(gridWidth, gridHeight) :
         ReachableFrom({c}) = Cells(gridWidth, gridHeight)

\* A 3 x 2 maze completed by Wilson's algorithm whose start cell is a dead end
\* to the south.
C5_Witness ==
  /\ GenerationComplete
  /\ algorithmKey = "wilsons"
  /\ gridWidth = 3 /\ gridHeight = 2
  /\ ~walls[0]["S"] /\ walls[0]["E"]

RECURSIVE BfsDistance(_, _, _)
BfsDistance(frontier, seen, d) ==
  IF GoalCell \in frontier THEN d
  ELSE LET next == { n \in Cells(gridWidth, gridHeight) \ seen :
                       \E c \in frontier : Joined(c, n) }
       IN IF next = {} THEN -1 ELSE BfsDistance(next, seen \cup next, d + 1)

SolveComplete == pc = "idle" /\ solve.current # -1

\* C6: when solveMaze ends, pathCells leads from the start to the goal through
\* carved passages between side neighbours, and the number of its moves is the
\* breadth-first distance from start to goal.
C6_ShortestPath ==
  SolveComplete =>
    /\ Len(pathCells) >= 1
    /\ pathCells[1] = StartCell
    /\ pathCells[Len(pathCells)] = GoalCell
    /\ \A k \in 1..(Len(pathCells) - 1) : Joined(pathCells[k], pathCells[k + 1])
    /\ Len(pathCells) - 1 = BfsDistance({StartCell}, {StartCell}, 0)

\* A solved 2 x 3 maze whose only route is longer than the straight distance.
C6_Witness ==
  /\ SolveComplete
  /\ gridWidth = 2 /\ gridHeight = 3
  /\ Len(pathCells) = 6

\* C7: packing the walls of a generated maze and decoding the text with
\* decodeOpenings gives back, for every cell index, the mask of that cell.
C7_GridRoundTrip ==
  roundTrip.kind = "grid" =>
    /\ ~roundTrip.threw
    /\ roundTrip.masks = roundTrip.expected

\* A 3 x 1 maze (an odd number of cells) with both entrances in its masks.
C7_Witness ==
  /\ roundTrip.kind = "grid"
  /\ gridWidth = 3 /\ gridHeight = 1
  /\ roundTrip.masks = <<3, 10, 12>>
  /\ roundTrip.expected = <<3, 10, 12>>

\* C8: packing the moves of a solved path and decoding the text with
\* maxLength = the number of moves gives back exactly those moves.
C8_MovesRoundTrip ==
  roundTrip.kind = "moves" =>
    /\ ~roundTrip.threw
    /\ roundTrip.moves = roundTrip.expected

\* Five moves fill one byte and a quarter of a second one.
C8_Witness ==
  /\ roundTrip.kind = "moves"
  /\ Len(roundTrip.expected) = 5
  /\ roundTrip.moves = roundTrip.expected

\* The one-cell maze has a path of one cell and no move: the text is empty.
C8_WitnessEmpty ==
  /\ roundTrip.kind = "moves"
  /\ roundTrip.text = << >>
  /\ roundTrip.moves = << >>

\* C11: tryParseBase64ZlibJson never raises: on every text, whatever the
\* decompressor and the JSON parser do, it returns a parsed value or null.
C11_TryParseNeverThrows ==
  (decIn.fn = "tryParseBase64ZlibJson" /\ decOut.done) =>
    /\ ~decOut.threw
    /\ decOut.parsed.kind \in {"null", "scalar", "array"}

\* 'CQ=' has three characters: the decoding throws inside, null comes out.
C11_Witness ==
  /\ decIn.fn = "tryParseBase64ZlibJson" /\ decOut.done
  /\ decIn.text = <<67, 81, 61>>
  /\ ~decOut.threw /\ decOut.parsed = JsonNull

\* No cell on the edge of the grid has a bit that points outside of it.
NoOutwardBits(openings, w, h) ==
  \A x \in 0..(w - 1), y \in 0..(h - 1) :
    LET m == openings[y * w + x + 1]
    IN /\ y = 0 => ~HasBit(m, DIRECTION_MASK_N)
       /\ x = w - 1 => ~HasBit(m, DIRECTION_MASK_E)
       /\ y = h - 1 => ~HasBit(m, DIRECTION_MASK_S)
       /\ x = 0 => ~HasBit(m, DIRECTION_MASK_W)

\* C12: the masks decodeOpenings returns for a grid written by the authoring
\* tool are symmetric between neighbours and have no bit pointing outside the
\* grid. The code breaks it: the legacy nibble loop returns the packed masks as
\* they are, with North on the start cell and South on the goal cell.
C12_ToolGridMasksValid ==
  (roundTrip.kind = "grid" /\ ~roundTrip.threw) =>
    /\ MasksSymmetric(roundTrip.masks, gridWidth, gridHeight)
    /\ NoOutwardBits(roundTrip.masks, gridWidth, gridHeight)

\* the bytes the legacy loop of decodeOpenings reads
LegacyBytesRead == decodeBase64ToUint8Array(decIn.text, decOut.env)

\* C13: when the expanded grid is absent or of the wrong size and the payload
\* has fewer than ceil(w*h/2) bytes, decodeOpenings fails. The code breaks it:
\* the cells the bytes do not reach are returned as 0.
C13_ShortPayloadFails ==
  (/\ decIn.fn = "decodeOpenings" /\ decOut.done
   /\ decOut.path = "legacy"
   /\ ~LegacyBytesRead.threw
   /\ Len(LegacyBytesRead.bytes) < (decIn.w * decIn.h + 1) \div 2) =>
    decOut.threw

\* the step in which generateMaze returns
GenerationFinishes == GeneratorDone /\ pc' = "idle"

\* C20: the step that ends a generation, whatever the algorithm, leaves the
\* start cell open to the north and the goal cell open to the south, both
\* marked generated, and the set of passages between cells as it was.
C20_EntrancesOpened ==
  [][GenerationFinishes =>
       /\ ~walls'[StartCell]["N"] /\ ~walls'[GoalCell]["S"]
       /\ generated'[StartCell] /\ generated'[GoalCell]
       /\ Passages' = Passages
       /\ getCell(0, -1, gridWidth, gridHeight) = -1
       /\ getCell(gridWidth - 1, gridHeight, gridWidth, gridHeight) = -1]_vars

\* A finished 2 x 2 maze of huntAndKill, entrance and exit open.
C20_Witness ==
  /\ GenerationComplete
  /\ algorithmKey = "huntAndKill"
  /\ gridWidth = 2 /\ gridHeight = 2
  /\ ~walls[0]["N"] /\ ~walls[3]["S"]

(***************************************************************************)
(* Claims about the game screen                                            *)
(***************************************************************************)

\* C14: a puzzle record whose payload cannot be decoded is skipped: selecting
\* a puzzle never ends with an exception.  The statement as the source would
\* have to satisfy it: no call of startGame throws.
C14_SelectionNeverThrows ==
  gameOut.op = "startGame" => ~gameOut.threw

\* the bit of direction directionIndex in the openings mask of the cell the
\* player stands on, read from the decoded openings
C15_BitAtHead(ops, maze, cells, directionIndex) ==
  LET head == cells[Len(cells)]
      mask == ops[head[2] * maze.w + head[1] + 1]
  IN (mask \div (2 ^ directionIndex)) % 2

\* C15: a move attempted from the player's cell in a direction whose passage
\* is closed in that cell's mask is not applied: cells, moves, divergence,
\* progress, hints used and slices used are unchanged.
C15_ClosedPassageNotApplied ==
  [][(/\ gameOut'.op = "handlePointer"
      /\ C15_BitAtHead(gameOpenings, currentMaze, playerCells,
                       gameOut'.directionIndex) = 0)
     => UNCHANGED <<playerCells, gamePlayerMoves, gameDivergence, gameProgress,
                    hintCount, sliceCount>>]_vars

\* a gesture toward a closed passage, made after the player had moved
C15_Witness ==
  /\ gameOut.op = "handlePointer"
  /\ ~gameOut.returned
  /\ Len(gamePlayerMoves) > 0
  /\ C15_BitAtHead(gameOpenings, currentMaze, playerCells,
                   gameOut.directionIndex) = 0

\* C16: after startGame has selected a puzzle the run state is reset:
\* cells = [(0,0)], moves = [], divergence = -1, progress = 0, hints used = 0,
\* slices used = 0, completed = false, elapsed = 0.
C16_StartGameResets ==
  (gameOut.op = "startGame" /\ ~gameOut.threw)
  => /\ playerCells = <<(<<0, 0>>)>>
     /\ gamePlayerMoves = << >>
     /\ gameDivergence = -1
     /\ gameProgress = 0
     /\ hintCount = 0
     /\ sliceCount = 0
     /\ completed = FALSE
     /\ elapsedMs = 0

\* a puzzle selected after a run that was completed with a hint or a slice
\* spent
C16_Witness ==
  /\ gameOut.op = "startGame"
  /\ ~gameOut.threw
  /\ playedSet # {}
  /\ availableHints < BASE_RESOURCE_BUNDLE \/ availableSlices < BASE_RESOURCE_BUNDLE

\* what C17 says of the path after a slice at divergence index d, for the
\* path (moves, cells) the slice was requested on
C17_Truncated(moves, cells, d) ==
  /\ gamePlayerMoves' = SubSeq(moves, 1, d)
  /\ playerCells' = SubSeq(cells, 1, d + 1)
  /\ Len(gamePlayerMoves') <= Len(gameSolutionMoves')
  /\ gamePlayerMoves' = SubSeq(gameSolutionMoves', 1, Len(gamePlayerMoves'))
  /\ gameDivergence' = -1
  /\ gameProgress' = d

C18_Untouched ==
  UNCHANGED <<availableHints, availableSlices, hintCount, sliceCount,
              gamePlayerMoves, playerCells, hintCells>>

\* C18: when the player is not Pro and has no hint (slice) left, the request
\* is granted only if the rewarded ad returns true; if it returns false
\* nothing changes in the available counts, the used counts, the path or the
\* hint cells; if it grants, the stock is refilled to the base bundle and one
\* unit is consumed.
C18_AdGatesRequest ==
  [][/\ (~isPro /\ availableHints <= 0 /\ hintCount' > hintCount)
        => gameOut'.op = "hintAd" /\ gameOut'.returned
     /\ (~isPro /\ availableSlices <= 0 /\ sliceCount' > sliceCount)
        => gameOut'.op = "sliceAd" /\ gameOut'.returned
     /\ (gameOut'.op \in {"hintWaits", "sliceWaits"}) => C18_Untouched
     /\ (gameOut'.op \in {"hintAd", "sliceAd"} /\ ~gameOut'.returned) => C18_Untouched
     /\ (gameOut'.op = "hintAd" /\ gameOut'.returned)
        => /\ availableHints' = BASE_RESOURCE_BUNDLE - 1
           /\ hintCount' = hintCount + 1
           /\ UNCHANGED <<availableSlices, sliceCount>>
     /\ (gameOut'.op = "sliceAd" /\ gameOut'.returned)
        => /\ availableSlices' = BASE_RESOURCE_BUNDLE - 1
           /\ sliceCount' = sliceCount + 1
           /\ UNCHANGED <<availableHints, hintCount>>]_vars

\* the ad has granted a hint to a player who is not Pro
C18_Witness ==
  /\ gameOut.op = "hintAd"
  /\ gameOut.returned
  /\ ~isPro
  /\ hintCount = 1
  /\ availableHints = BASE_RESOURCE_BUNDLE - 1

\* the operations that are a hint or a slice request, or the end of one
C19_RequestOps == {"requestHint", "attemptSlice", "hintWaits", "sliceWaits",
                   "hintAd", "sliceAd"}

\* C19 as stated: while Pro status is true no hint or slice request is made
\* to wait for a rewarded ad, no step of a request lowers an available count,
\* and no interstitial is shown after a win.
C19_ProNeverDecrements ==
  [][(isPro /\ isPro')
     => /\ gameOut'.op \notin {"hintWaits", "sliceWaits"}
        /\ (gameOut'.op \in C19_RequestOps)
           => /\ availableHints' >= availableHints
              /\ availableSlices' >= availableSlices
        /\ gameOut'.interstitials = 0]_vars

\* C19, amended: a hint or slice request made while Pro status is true is
\* served at once, without waiting for an ad and without touching the
\* available counts, and no interstitial is shown after a win; only a request
\* that was already waiting for its ad when Pro status became true still
\* refills the stock and consumes one unit.
C19_ProRequestsUnlimited ==
  [][(isPro /\ isPro')
     => /\ gameOut'.op \notin {"hintWaits", "sliceWaits"}
        /\ (gameOut'.op \in {"requestHint", "attemptSlice"})
           => /\ gameOut'.returned
              /\ UNCHANGED <<availableHints, availableSlices>>
        /\ (gameOut'.op = "hintAd") => hintRequest.pending
        /\ (gameOut'.op = "sliceAd") => sliceRequest.pending
        /\ (gameOut'.op \in {"hintAd", "sliceAd"})
           => \/ UNCHANGED <<availableHints, availableSlices>>
              \/ /\ gameOut'.returned
                 /\ BASE_RESOURCE_BUNDLE - 1 \in {availableHints', availableSlices'}
        /\ gameOut'.interstitials = 0]_vars

\* a Pro player has completed a puzzle
C19_Witness ==
  /\ isPro
  /\ completed
  /\ gameOut.op = "handlePointer"
  /\ gameOut.returned
  /\ gameOut.interstitials = 0
  /\ availableHints = POSITIVE_INFINITY

(***************************************************************************)
(* Claims about the decoder, continued                                     *)
(***************************************************************************)

\* the text with 'A' in the place of every character that is neither of the
\* Base64 alphabet nor '='
C23_WithA(text) ==
  [k \in 1..Len(text) |->
     IF text[k] = PadCode \/ \E i \in 0..63 : Base64AlphabetCode(i) = text[k]
     THEN text[k] ELSE 65]

\* C23: decodeBase64ToUint8Array treats a character outside the Base64
\* alphabet as the 6-bit value zero: the bytes it returns (when it returns the
\* decoded bytes, not inflated ones) are those of the text with every invalid
\* character replaced by 'A'.
C23_InvalidCharIsZero ==
  (/\ decIn.fn = "decodeBase64ToUint8Array" /\ decOut.done /\ ~decOut.threw
   /\ ~(decOut.env.pako /\ decOut.env.inflate1.kind = "bytes"))
  => decOut.bytes = Base64RawBytes(C23_WithA(Sanitize(decIn.text)))

\* the coordinate list C24 describes: a pair of odd numbers is halved, any
\* other pair is left out
C24_OddPairsOnly(items) ==
  LET odd(item) == item.row[1] % 2 = 1 /\ item.row[2] % 2 = 1
      kept == SelectSeq(items, odd)
  IN [k \in 1..Len(kept) |->
        ItemRow(<<(kept[k].row[1] - 1) \div 2, (kept[k].row[2] - 1) \div 2>>)]

\* C24: when decodeMoves normalizes the coordinates (some coordinate exceeds
\* maxLength), the moves it returns are those of the list in which every pair
\* of odd numbers is mapped to ((r-1)/2, (c-1)/2) and every other pair is
\* dropped.
C24_UnmappablePairsDropped ==
  \A parsed \in {tryParseBase64ZlibJson(decIn.text, decOut.env)} :
    (/\ decIn.fn = "decodeMoves" /\ decOut.done /\ ~decOut.threw
     /\ decOut.path = "coords"
     /\ \A k \in 1..Len(parsed.items) : parsed.items[k].kind = "row"
     /\ \E k \in 1..Len(parsed.items) :
          parsed.items[k].row[1] > decIn.L \/ parsed.items[k].row[2] > decIn.L)
    => decOut.moves = CoordLoop(C24_OddPairsOnly(parsed.items), 0, << >>, decIn.L).moves

\* the entry (r, c) of the expanded grid exists and is passable
C25_Passable(grid, r, c) ==
  /\ r >= 0 /\ r < Len(grid)
  /\ c >= 0 /\ c < Len(grid[r + 1].row)
  /\ grid[r + 1].row[c + 1] = 1

\* bit k (0 = N, 1 = E, 2 = S, 3 = W) of the mask computed for cell (x, y)
\* agrees with the two entries of the expanded grid in that direction
C25_BitAgrees(x, y, k) ==
  LET dr == CASE k = 0 -> -1 [] k = 2 -> 1 [] OTHER -> 0
      dc == CASE k = 1 -> 1 [] k = 3 -> -1 [] OTHER -> 0
      mask == decOut.openings[y * decIn.w + x + 1]
  IN ((mask \div (2 ^ k)) % 2 = 1)
       <=> /\ C25_Passable(decIn.grid, 2 * y + 1 + dr, 2 * x + 1 + dc)
           /\ C25_Passable(decIn.grid, 2 * y + 1 + 2 * dr, 2 * x + 1 + 2 * dc)

\* C25 as stated: in the masks convertExpandedToRegular computes for a grid
\* of exactly (2h+1) x (2w+1) entries, direction D of cell (x, y) is set if
\* and only if the entry next to the cell centre in direction D and the entry
\* one step further are both passable.
C25_MaskIffBothPassable ==
  (decIn.fn = "convertExpandedToRegular" /\ decOut.done)
  => \A x \in 0..(decIn.w - 1), y \in 0..(decIn.h - 1), k \in 0..3 :
       C25_BitAgrees(x, y, k)

\* C25, amended: the equivalence holds for every cell whose centre entry is
\* passable; a cell whose centre entry is not passable gets the mask 0.
C25_MaskOfPassableCentre ==
  (decIn.fn = "convertExpandedToRegular" /\ decOut.done)
  => /\ ~decOut.threw
     /\ Len(decOut.openings) = decIn.w * decIn.h
     /\ \A x \in 0..(decIn.w - 1), y \in 0..(decIn.h - 1) :
          IF C25_Passable(decIn.grid, 2 * y + 1, 2 * x + 1)
          THEN \A k \in 0..3 : C25_BitAgrees(x, y, k)
          ELSE decOut.openings[y * decIn.w + x + 1] = 0

\* a 5 x 5 grid with a passable border: the first cell is open East and South
\* only, although the border entries North and West of it are passable
C25_Witness ==
  /\ decIn.fn = "convertExpandedToRegular" /\ decOut.done
  /\ decIn.w = 2 /\ decIn.h = 2
  /\ decIn.grid[1].row[2] = 1 /\ decIn.grid[2].row[1] = 1
  /\ decOut.openings[1] = 6
  /\ decOut.openings[4] = 0

\* the array normalizeOpenings holds after its symmetry loop
C26_AfterLoop == normalizeLoop(normIn.openings, normIn.w, normIn.h, 0)

\* the array normalizeOpenings holds after the start cell was looked at
C26_AfterStart == ensureStartOpening(C26_AfterLoop, normIn.w, normIn.h)

C26_GoalIdx == (normIn.h - 1) * normIn.w + (normIn.w - 1)

\* C26: after normalizeOpenings on a grid of more than one cell the start cell
\* (index 0) and the goal cell (index w*h-1) each have an opening; a start the
\* symmetry loop left with none is open East, with West set on cell 1 (South,
\* with North set on cell w, when w = 1), and a goal left with none is open
\* West, with East set on the cell before it (North, with South set on the
\* cell above, when w = 1).
C26_StartAndGoalOpened ==
  (normOut.done /\ normIn.w * normIn.h > 1)
  => /\ normOut.openings[1] # 0
     /\ normOut.openings[C26_GoalIdx + 1] # 0
     /\ GetAt(C26_AfterLoop, 0) = 0
          => IF normIn.w > 1
             THEN /\ HasBit(normOut.openings[1], DIRECTION_MASK_E)
                  /\ HasBit(normOut.openings[2], DIRECTION_MASK_W)
             ELSE /\ HasBit(normOut.openings[1], DIRECTION_MASK_S)
                  /\ HasBit(normOut.openings[normIn.w + 1], DIRECTION_MASK_N)
     /\ GetAt(C26_AfterStart, C26_GoalIdx) = 0
          => IF normIn.w > 1
             THEN /\ HasBit(normOut.openings[C26_GoalIdx + 1], DIRECTION_MASK_W)
                  /\ HasBit(normOut.openings[C26_GoalIdx], DIRECTION_MASK_E)
             ELSE /\ HasBit(normOut.openings[C26_GoalIdx + 1], DIRECTION_MASK_N)
                  /\ HasBit(normOut.openings[C26_GoalIdx - normIn.w + 1], DIRECTION_MASK_S)

\* a 2 x 2 grid whose only opening joins the two cells of the second column:
\* the start is opened East and the goal keeps the opening it had
C26_Witness ==
  /\ normOut.done
  /\ normIn.w = 2 /\ normIn.h = 2
  /\ GetAt(C26_AfterLoop, 0) = 0
  /\ normOut.openings[1] = DIRECTION_MASK_E
  /\ HasBit(normOut.openings[2], DIRECTION_MASK_W)
  /\ normOut.openings[4] = DIRECTION_MASK_N

\* a 1 x 2 grid without any opening: the start is opened South
C26_WitnessColumn ==
  /\ normOut.done
  /\ normIn.w = 1 /\ normIn.h = 2
  /\ GetAt(C26_AfterLoop, 0) = 0
  /\ normOut.openings = <<DIRECTION_MASK_S, DIRECTION_MASK_N>>

\* a 2 x 2 grid in which the goal is left without an opening and is opened West
C26_WitnessGoal ==
  /\ normOut.done
  /\ normIn.w = 2 /\ normIn.h = 2
  /\ GetAt(C26_AfterStart, C26_GoalIdx) = 0
  /\ normOut.openings[4] = DIRECTION_MASK_W
  /\ HasBit(normOut.openings[3], DIRECTION_MASK_E)

-----------------------------------------------------------------------------
\* Claims about the authoring tool, continued.

\* the multiples of 20 below L, ascending, then L
C21_Expected(L) ==
  Append([k \in 1..((L - 1) \div 20) |-> 20 * k], L)

\* C21: for a solution of L > 0 moves the hint checkpoints solveMaze places
\* are the multiples of 20 below L followed by L itself, none twice; for
\* L <= 0 the list is empty.
C21_DefaultHints ==
  hintOut.done
  => IF hintIn.L > 0
     THEN /\ hintOut.hints = C21_Expected(hintIn.L)
          /\ hintOut.defaults = C21_Expected(hintIn.L)
          /\ \A i, j \in 1..Len(hintOut.hints) :
               i < j => hintOut.hints[i] < hintOut.hints[j]
     ELSE hintOut.hints = << >> /\ hintOut.defaults = << >>

\* a length that is a multiple of 20: 60 is listed once
C21_Witness ==
  /\ hintOut.done
  /\ hintIn.L = 60
  /\ hintOut.hints = <<20, 40, 60>>

\* a length between two multiples, and a negative one
C21_WitnessBetween ==
  /\ hintOut.done
  /\ \/ hintIn.L = 45 /\ hintOut.hints = <<20, 40, 45>>
     \/ hintIn.L < 0 /\ hintOut.defaults = << >>

\* the list is strictly ascending (hence without duplicate) and within 1..L
C22_AscendingWithin(steps, L) ==
  /\ \A k \in 1..Len(steps) : steps[k] >= 1 /\ steps[k] <= L
  /\ \A i, j \in 1..Len(steps) : i < j => steps[i] < steps[j]

\* the number of moves a record exported from the present grid would hold
C22_SolutionLength ==
  Len(getSolvedPathCoordinates(pathCells, walls, generated,
                               gridWidth, gridHeight).coords) - 1

\* C22: whatever solves, hint additions and hint removals came before, the
\* hint list the tool holds and the hints of an exported record are strictly
\* ascending, without duplicate, and within 1..L, L being the number of moves
\* of the exported solution.
C22_HintsAscendingInRange ==
  /\ hints.set => C22_AscendingWithin(hints.steps, C22_SolutionLength)
  /\ exported.saved => C22_AscendingWithin(exported.hints, exported.L)

\* a record exported after the last checkpoint was removed and two were
\* added, the later one first
C22_Witness ==
  /\ exported.saved
  /\ exported.L = 5
  /\ exported.hints = <<2, 4>>
  /\ hints.steps = <<2, 4>>
  /\ hintEditMode = "add"

\* a record exported without any solve: the default checkpoint of its length
C22_WitnessFallback ==
  /\ exported.saved /\ exported.fallback
  /\ ~hints.set
  /\ exported.hints = <<exported.L>>

\* the masks an exported record holds: two cells per byte of g
C30_Masks == LegacyOpenings(Base64RawBytes(exported.g), exported.w * exported.h)

\* the moves an exported record holds: four per byte of p, the first L of them
C30_Moves == LegacyMoves(Base64RawBytes(exported.p), 0, << >>, exported.L)

\* from (x, y), the moves from the k-th on stay inside the grid, leave each
\* cell through a side open in its mask, and end on the goal cell
RECURSIVE C30_Walk(_, _, _, _, _)
C30_Walk(masks, moves, k, x, y) ==
  IF k > Len(moves) THEN x = exported.w - 1 /\ y = exported.h - 1
  ELSE LET direction == DIRECTIONS(moves[k])
           nx == x + direction.dx
           ny == y + direction.dy
       IN /\ HasBit(masks[y * exported.w + x + 1], direction.mask)
          /\ nx >= 0 /\ nx < exported.w /\ ny >= 0 /\ ny < exported.h
          /\ C30_Walk(masks, moves, k + 1, nx, ny)

\* C30: in every exported record the moves, walked from (0, 0), stay inside
\* the grid, leave each cell through a passage open in the exported masks and
\* end on (W-1, H-1), and L is the number of the exported moves; whether the
\* path came from solveMaze or from the breadth-first search of the save.
C30_ExportSelfConsistent ==
  exported.saved
  => /\ Len(Base64RawBytes(exported.p)) = (exported.L + 3) \div 4
     /\ Len(C30_Moves) = exported.L
     /\ exported.L >= 1
     /\ C30_Walk(C30_Masks, C30_Moves, 1, 0, 0)

\* a 3 x 2 maze saved without solving: the search finds the way of five moves
C30_Witness ==
  /\ exported.saved /\ exported.fallback
  /\ exported.w = 3 /\ exported.h = 2
  /\ exported.L = 5
  /\ C30_Moves = <<2, 1, 0, 1, 2>>

\* a 2 x 3 maze saved after solveMaze
C30_WitnessSolved ==
  /\ exported.saved /\ ~exported.fallback
  /\ exported.w = 2 /\ exported.h = 3
  /\ exported.L = 3
  /\ Len(pathCells) = 4

\* generateMaze is suspended in its generator
C29_Generating == pc \in Algorithms

\* solveMaze is suspended in its search or in the drawing of the path
C29_Solving == pc \in {"solveLoop", "solvePath"}

\* a step taken while generateMaze runs is a step of generateMaze: the size
\* stays, walls are only removed, cells are only marked, and what solveMaze
\* and the save handler write is left alone
C29_OnlyGenerateActs ==
  /\ pc' \in {pc, "idle"}
  /\ gridWidth' = gridWidth /\ gridHeight' = gridHeight
  /\ DOMAIN walls' = DOMAIN walls
  /\ \A c \in DOMAIN walls : \A d \in {"N", "E", "S", "W"} : walls'[c][d] => walls[c][d]
  /\ \A c \in DOMAIN generated : generated[c] => generated'[c]
  /\ UNCHANGED <<solve, pathCells, hints>>
  /\ exported' = NoExport

\* a step taken while solveMaze runs is a step of solveMaze: the grid stays
C29_OnlySolveActs ==
  /\ pc' \in {"solveLoop", "solvePath", "idle"}
  /\ UNCHANGED <<gridWidth, gridHeight, walls, generated, gen>>
  /\ exported' = NoExport

\* C29: isAnimating is set exactly while generateMaze or solveMaze is
\* suspended, never both; and while it is set, no generate, solve, reset,
\* size change or save request has an effect: every step is a step of the
\* operation that runs.
C29_SingleOperation ==
  /\ [](isAnimating <=> (C29_Generating \/ C29_Solving))
  /\ [][(C29_Generating => C29_OnlyGenerateActs)
        /\ (C29_Solving => C29_OnlySolveActs)
        /\ (pc' # pc /\ pc' # "idle" /\ pc' # "solvePath" => ~isAnimating)]_vars

\* a generation half-way on a 3 x 2 grid: three cells marked, a passage carved
C29_Witness ==
  /\ C29_Generating /\ isAnimating
  /\ gridWidth = 3 /\ gridHeight = 2
  /\ Cardinality({c \in Cells(gridWidth, gridHeight) : generated[c]}) = 3
  /\ \E c \in Cells(gridWidth, gridHeight) : ~walls[c]["E"]
  /\ exported = NoExport /\ pathCells = << >>

\* a search under way
C29_WitnessSolving ==
  /\ C29_Solving /\ isAnimating
  /\ pc = "solveLoop"
  /\ hints.set

C27_Opposite(d) ==
  CASE d = "N" -> "S" [] d = "S" -> "N" [] d = "E" -> "W" [] d = "W" -> "E"

\* the cell on side d of c, -1 when that side is on the outer boundary
C27_Beside(c, d) ==
  getCell(CellX(c, gridWidth) + Dx(d), CellY(c, gridWidth) + Dy(d), gridWidth, gridHeight)

\* the sets of cells joined with one another by carved passages
C27_Components == { ReachableFrom({c}) : c \in Cells(gridWidth, gridHeight) }

\* C27: whenever a generator is suspended in a renderStep, each wall between
\* two cells is present on both sides or absent on both, every wall on the
\* outer boundary stands, and the carved passages hold no cycle (they number
\* the cells minus the sets of joined cells, as in a forest).
C27_ValidIntermediateGrid ==
  pc \in Algorithms
  => /\ \A c \in Cells(gridWidth, gridHeight) : \A d \in {"N", "E", "S", "W"} :
          IF C27_Beside(c, d) = -1 THEN walls[c][d]
          ELSE walls[c][d] = walls[C27_Beside(c, d)][C27_Opposite(d)]
     /\ Cardinality(Passages) = gridWidth * gridHeight - Cardinality(C27_Components)

\* Wilson's algorithm on a 3 x 2 grid, suspended with two passages carved and
\* cells left to visit
C27_Witness ==
  /\ pc = "wilsons"
  /\ gridWidth = 3 /\ gridHeight = 2
  /\ Cardinality(Passages) = 2
  /\ Cardinality(C27_Components) = 4
  /\ allUnvisited # {}

C28_AllGenerated == \A c \in Cells(gridWidth, gridHeight) : generated[c]

\* C28: a generator that was started comes to the end of its loop (the stack
\* of the backtracker or the list of the growing tree is empty, the hunt finds
\* nothing, the sidewinder is past the last row, Wilson's set of unvisited
\* cells is empty, the random choices being fair), and at the end of the loop
\* every cell is marked generated.
C28_GeneratorsTerminate ==
  /\ [](GeneratorDone => C28_AllGenerated)
  /\ (pc \in Algorithms) ~> (GeneratorDone /\ C28_AllGenerated)

\* Wilson's algorithm at the end of its loop on a 2 x 3 grid
C28_Witness ==
  /\ pc = "wilsons"
  /\ GeneratorDone
  /\ gridWidth = 2 /\ gridHeight = 3
  /\ C28_AllGenerated

\* hunt-and-kill at the end of its loop after a hunt picked up the last cell
C28_WitnessHunt ==
  /\ pc = "huntAndKill"
  /\ GeneratorDone
  /\ gridWidth = 3 /\ gridHeight = 2
  /\ C28_AllGenerated

(***************************************************************************)
(* Claims about the game screen, continued                                 *)
(***************************************************************************)

\* the cell beside cell in direction directionIndex
C31_Beside(cell, directionIndex) ==
  <<cell[1] + DIRECTIONS(directionIndex).dx, cell[2] + DIRECTIONS(directionIndex).dy>>

\* the bit of direction directionIndex in the mask of cell, in the openings of
\* the current maze
C31_Open(cell, directionIndex) ==
  LET idx == cell[2] * currentMaze.w + cell[1]
  IN /\ idx + 1 \in DOMAIN gameOpenings
     /\ (gameOpenings[idx + 1] \div (2 ^ directionIndex)) % 2 = 1

\* C31: after any sequence of pointer moves, slices and puzzle starts the
\* player path is well-formed in the current maze: it starts at (0, 0), has
\* one cell more than moves, every cell lies inside the grid, and each cell
\* is the neighbour of the one before it in the direction of the move, which
\* is open in the mask of the cell it leaves.
C31_PathWellFormed ==
  currentMaze # NoMaze
  => /\ playerCells[1] = <<0, 0>>
     /\ Len(playerCells) = Len(gamePlayerMoves) + 1
     /\ \A i \in 1..Len(playerCells) : playerCells[i] \in GridPoints(currentMaze)
     /\ \A i \in 1..Len(gamePlayerMoves) :
          /\ gamePlayerMoves[i] \in 0..3
          /\ playerCells[i + 1] = C31_Beside(playerCells[i], gamePlayerMoves[i])
          /\ C31_Open(playerCells[i], gamePlayerMoves[i])

\* the length of the longest common prefix of two move lists
C32_CommonPrefix(a, b) ==
  LET same == {n \in 0..Min(Len(a), Len(b)) : SubSeq(a, 1, n) = SubSeq(b, 1, n)}
  IN CHOOSE n \in same : \A m \in same : m <= n

\* C32: after every applied move and every applied slice on a puzzle with a
\* non-empty reference solution the stored divergence is
\* firstDivergence(playerMoves, solutionMoves) and the stored progress is the
\* length of the longest common prefix of the two lists.
C32_EvaluationStored ==
  [][(/\ gameOut'.op \in {"handlePointer", "attemptSlice", "sliceAd"}
      /\ gameOut'.returned
      /\ Len(gameSolutionMoves') > 0)
     => /\ gameDivergence' = firstDivergence(gamePlayerMoves', gameSolutionMoves')
        /\ gameProgress' = C32_CommonPrefix(gamePlayerMoves', gameSolutionMoves')
        /\ gameProgress' <= Len(gameSolutionMoves')]_vars

\* the anchor attemptSlice works with, for the index it is called with
C33_Anchor(segmentIndex) ==
  IF segmentIndex # -1 THEN segmentIndex
  ELSE IF gameDivergence = -1 THEN gameProgress ELSE gameDivergence

\* C33: a slice that would not shorten the player path (its anchor is
\* negative, or not less than the number of player moves) returns false: no
\* ad is awaited, no slice is consumed or counted and the path is unchanged.
C33_RefusedSliceChangesNothing ==
  [][(/\ gameOut'.op \in {"attemptSlice", "sliceWaits", "sliceRefused"}
      /\ \/ C33_Anchor(gameOut'.segmentIndex) < 0
         \/ C33_Anchor(gameOut'.segmentIndex) >= Len(gamePlayerMoves))
     => /\ gameOut'.op = "sliceRefused"
        /\ ~gameOut'.returned
        /\ UNCHANGED <<sliceRequest, availableSlices, sliceCount, gamePlayerMoves,
                       playerCells, gameDivergence, gameProgress>>]_vars

\* a tap-slice was refused while the player, who has moved, is still on the
\* reference solution and has no slice in stock
C33_Witness ==
  /\ gameOut.op = "sliceRefused"
  /\ gameOut.segmentIndex = -1
  /\ ~isPro
  /\ availableSlices = 0
  /\ gameDivergence = -1
  /\ Len(gamePlayerMoves) > 0

\* both stocks of a player who is not Pro are within 0..3, before and after
\* the step
C34_InRange ==
  /\ ~isPro => /\ availableHints \in 0..BASE_RESOURCE_BUNDLE
               /\ availableSlices \in 0..BASE_RESOURCE_BUNDLE
  /\ ~isPro' => /\ availableHints' \in 0..BASE_RESOURCE_BUNDLE
                /\ availableSlices' \in 0..BASE_RESOURCE_BUNDLE

\* C34 as stated: for a player who is not Pro the available hints and the
\* available slices stay within 0..3 whatever hint requests, slices,
\* rewarded-ad refills and Pro status changes (Pro being revoked included)
\* have happened, and each granted hint or slice lowers its stock by exactly
\* 1.
C34_GrantLowersByOne ==
  [][/\ C34_InRange
     /\ (~isPro /\ ~isPro' /\ hintCount' > hintCount)
        => availableHints' = availableHints - 1
     /\ (~isPro /\ ~isPro' /\ sliceCount' > sliceCount)
        => availableSlices' = availableSlices - 1]_vars

\* C34, amended: the stocks of a player who is not Pro stay within 0..3; a
\* hint or slice granted from the stock lowers it by exactly 1, and one
\* granted after a rewarded ad leaves the stock at 2: the ad refills it to 3
\* and one unit is taken. The other stock is not touched.
C34_StocksBounded ==
  [][/\ C34_InRange
     /\ (~isPro /\ ~isPro' /\ hintCount' > hintCount)
        => /\ hintCount' = hintCount + 1
           /\ IF gameOut'.op = "hintAd"
              THEN availableHints' = BASE_RESOURCE_BUNDLE - 1
              ELSE availableHints > 0 /\ availableHints' = availableHints - 1
           /\ UNCHANGED availableSlices
     /\ (~isPro /\ ~isPro' /\ sliceCount' > sliceCount)
        => /\ sliceCount' = sliceCount + 1
           /\ IF gameOut'.op = "sliceAd"
              THEN availableSlices' = BASE_RESOURCE_BUNDLE - 1
              ELSE availableSlices > 0 /\ availableSlices' = availableSlices - 1
           /\ UNCHANGED availableHints]_vars

\* a player who is not Pro has been granted a hint from the stock and, in the
\* same run, a slice after a rewarded ad
C34_Witness ==
  /\ ~isPro
  /\ gameOut.op = "sliceAd"
  /\ gameOut.returned
  /\ availableSlices = BASE_RESOURCE_BUNDLE - 1
  /\ sliceCount = 1
  /\ hintCount = 1
  /\ availableHints = BASE_RESOURCE_BUNDLE - 1

\* C35: a slice resumed after its rewarded ad never overwrites the run with
\* a stale path: what it installs is a prefix of the path the player has when
\* the ad resolves, so it is not the path that was cut before a new puzzle
\* was started.
C35_ResumedSliceNotStale ==
  [][(gameOut'.op = "sliceAd" /\ gameOut'.returned)
     => /\ Len(playerCells') <= Len(playerCells)
        /\ playerCells' = SubSeq(playerCells, 1, Len(playerCells'))
        /\ gamePlayerMoves' = SubSeq(gamePlayerMoves, 1, Len(gamePlayerMoves'))]_vars

\* the path ends with a winning move: on the goal cell, or with the whole
\* reference solution traced
C36_EndsWon(cells, moves, div, prog) ==
  \/ cells[Len(cells)] = <<currentMaze.w - 1, currentMaze.h - 1>>
  \/ /\ div = -1
     /\ prog >= (IF Len(gameSolutionMoves) > 0 THEN Len(gameSolutionMoves)
                 ELSE currentMaze.L)

\* C36: once a run has been won no further move is appended to its path and
\* the result is recorded at most once until a new puzzle is started: the
\* gesture that wins leaves the path at the winning move with handleWin
\* called once, and no later step lengthens the path of a completed run.
C36_NoMoveAfterWin ==
  [][/\ (gameOut'.op = "handlePointer" /\ ~completed /\ completed')
        => /\ C36_EndsWon(playerCells', gamePlayerMoves', gameDivergence',
                          gameProgress')
           /\ gameOut'.interstitials <= 1
     /\ (completed /\ completed')
        => Len(gamePlayerMoves') <= Len(gamePlayerMoves)]_vars

(***************************************************************************)
(* Claims about the decoder: inflated payloads and coordinate paths        *)
(***************************************************************************)

\* texts that are JSON: '[]' and '1'
C39_JsonTexts == {<<91, 93>>, <<49>>}

\* C39: for a payload that is Base64 of zlib-compressed JSON and begins with
\* 'eJ', tryParseBase64ZlibJson returns the value of the JSON text all the
\* same: the inflation already done inside decodeBase64ToUint8Array does not
\* keep the text from JSON.parse, whose result is what the call returns.
C39_PrefixKeepsValue ==
  (/\ decIn.fn = "tryParseBase64ZlibJson"
   /\ decOut.done
   /\ Len(Sanitize(decIn.text)) >= 2
   /\ SubSeq(Sanitize(decIn.text), 1, 2) = <<101, 74>>
   /\ decOut.env.pako
   /\ decOut.env.inflate1.kind = "bytes"
   /\ decOut.env.inflate1.bytes \in C39_JsonTexts)
  => /\ decOut.env.inflate2.kind = "throw"
     /\ decOut.parsed = (IF decOut.env.jsonRaw.kind = "throw" THEN JsonNull
                         ELSE decOut.env.jsonRaw)

\* the cell-level moves between the consecutive centres of a coordinate list
C40_CellMoves(centres) ==
  [k \in 1..(Len(centres) - 1) |->
     LET dr == (centres[k + 1].row[1] - centres[k].row[1]) \div 2
         dc == (centres[k + 1].row[2] - centres[k].row[2]) \div 2
     IN IF dr = -1 THEN 0 ELSE IF dc = 1 THEN 1 ELSE IF dr = 1 THEN 2 ELSE 3]

\* C40: for every maze and every solution of L moves whose path payload
\* lists the centres [2y+1, 2x+1] of the visited cells, decodeMoves(p, L)
\* returns exactly the L moves of the solution, whatever L is.
C40_CentresDecoded ==
  (decIn.fn = "decodeMoves(centres)" /\ decOut.done)
  => /\ ~decOut.threw
     /\ Len(decOut.moves) = decIn.L
     /\ decOut.moves = C40_CellMoves(decIn.grid)

(***************************************************************************)
(* Claims about the Pro unlock                                             *)
(***************************************************************************)

\* C37: Pro status is granted only together with persistence: when
\* buyProUnlock or restorePurchases returns false or fails, the in-memory
\* flag is what it was before the call; when it returns true, the stored
\* value is '1' and every subscriber has been notified with true.
C37_GrantedWithPersistence ==
  [][(/\ iapCall' # iapCall
      /\ iapCall'.pc = "done"
      /\ iapCall'.fn \in {"buyProUnlock", "restorePurchases"})
     => /\ iapCall'.result \in {"false", "threw"} => cachedPro' = iapCall'.before
        /\ iapCall'.result = "true"
           => /\ stored' = "1"
              /\ \A h \in Hooks : proHooks'[h].mounted => proHooks'[h].value]_vars

\* C38: after buyProUnlock has returned true the cached flag and the value
\* of every mounted useProStatus instance stay true until clearProStatus (or
\* another call) is made, whatever reads of the stored flag were under way.
C38_ProStaysTrue ==
  (iapCall.fn = "buyProUnlock" /\ iapCall.pc = "done" /\ iapCall.result = "true")
  => /\ cachedPro
     /\ \A h \in Hooks : proHooks[h].mounted => proHooks[h].value

=============================================================================
